---- MODULE Spec2Model ----
(***************************************************************************)
(* Verification model of CVM-colorBot.                                     *)
(*                                                                         *)
(*   src/src/aim_system/RCS.py                 recoil control (RCS)        *)
(*   src/src/aim_system/normal.py              per-frame orchestrator      *)
(*   src/src/aim_system/anti_smoke_detector.py target tracking             *)
(*                                                                         *)
(* Time is counted in whole milliseconds.  Python's None is the value      *)
(* None (-1) for a time stamp and the string "None" for an object.         *)
(***************************************************************************)
EXTENDS Integers, Sequences, FiniteSets, TLC

VARIABLES
    now,          \* time.time(), in ms
    rcs_state,    \* RCS.py _rcs_state: is_active, last_click_time, button_press_time, rcs_thread
    rcs_call,     \* the last process_rcs call: its arguments, the reads it made, its result
    obs,          \* what the RCS code has observed of the primary button so far (history)
    tracker,      \* the AimTracker attributes the frame passes on: rcs_activation_delay, ...
    frame_call,   \* the last process_normal_mode call: its arguments and what it did
    detector,     \* AntiSmokeDetector: frame_counter, canli_hedefler, olu_ikonlar, sonraki_hedef_id
    smoke_call,   \* the last update_frame call: its argument and what it did
    SCIPY_AVAILABLE,  \* anti_smoke_detector.py SCIPY_AVAILABLE: scipy.spatial.ConvexHull was imported
    shape_call,   \* the last is_shape_plausible call: its argument and its verdict
    pid,          \* per profile: the configured aim mode, the PID controller state, and whether that state dates from before a switch away from PID (history)
    dispatch_call, \* the last dispatch call: its arguments and what it did
    serial,       \* mouse.py module state (is_connected, _mask_applied_idx) and what the device has locked
    movement_lock_state, \* mouse.py _movement_lock_state
    mouse_call,   \* the last mouse.py call: its arguments and the state it found
    listener,     \* the listener thread of mouse.py: whether it runs, whether _listener_thread refers to it, last_value and button_states
    capture,      \* CaptureService: mode, the backends' connections and camera objects, and which backend modules were importable
    capture_call, \* the last CaptureService call: what it was, what it returned, the state it found
    gst,          \* a CaptureCardGStreamer instance: whether it exists, running, its pipeline and appsink handles, the GStreamer state of its pipeline
    gst_call,     \* the last CaptureCardGStreamer call: what it unreferenced and in which pipeline state
    net,          \* the kmNet session: state.is_connected, state.last_connect_error, whether state.kmnet_module is loaded
    net_call,     \* the last NetAPI.connect call: what happened in it and what it returned
    ndi,          \* NDIManager: ndi_sources, selected_source, connected and the source the receiver is set to
    ndi_call,     \* the last NDIManager.connect_to_source call
    mss,          \* an MSSCapture instance: monitor_index, fov_x and fov_y (in tenths of a pixel), _connected, the monitor whose geometry it holds
    mss_call,     \* the last MSSCapture call
    strafe,       \* the trigger's state_dict entry strafe_manual_neutral_since, the clock in tenths of a millisecond, and the history of the neutral-hold timer
    strafe_call,  \* the last strafe-helper call
    monitor,      \* a MouseInputMonitor: button_counts, last_button_states, is_enabled, and the button reads since the last enable()
    monitor_call, \* the last MouseInputMonitor call
    hsv,          \* the HSV preview window: the six slider variables, the custom_hsv_* fields of the configuration, the eyedropper flag and the last callback
    crop,         \* the capture-card configuration and the rectangle last computed from it
    pull,         \* RCS.py seen per activation cycle: is_active, the pull thread with the arguments it was started with, the number of activations so far, the last move emitted
    lst,          \* mouse.py seen per listener thread: is_connected, the thread _listener_thread refers to, every listener thread started so far, button_states
    rdr,          \* CaptureCardGStreamer: the reader thread and stop()
    req,          \* what each profile's last update_movement_lock asked for
    logs          \* debug_logger: _log_buffer and the last get_recent_logs

vars == <<now, rcs_state, rcs_call, obs, tracker, frame_call, detector, smoke_call,
          SCIPY_AVAILABLE, shape_call, pid, dispatch_call, serial, movement_lock_state, mouse_call, listener, capture, capture_call, gst, gst_call, net, net_call, ndi, ndi_call, mss, mss_call, strafe, strafe_call, monitor, monitor_call, hsv, crop, pull, lst, rdr, req, logs>>

\* ---------------------------------------------------------------- bounds
MaxTime == 5              \* time runs from 1 to MaxTime
MaxDelay == 3             \* activation_delay is drawn from 0..MaxDelay
MaxThreshold == 2         \* rapid_click_threshold is drawn from 0..MaxThreshold
MaxFrames == 9            \* update_frame is called at most MaxFrames times
MaxTargets == 2           \* at most MaxTargets target ids are issued
MaxClusters == 2          \* a frame holds at most MaxClusters clusters

None == 0 - 1

Delays == 0..MaxDelay
Thresholds == 0..MaxThreshold

\* ================================================================ RCS.py

\* Thread.is_alive(): true from start() until the target function has returned.
\* rcs_thread is "None" (never created), the loop position of a live thread
\* ("check", "move", "exiting": left the loop, not yet terminated) or "dead".
thread_is_alive(s) == s.rcs_thread \in {"check", "move", "exiting"}

\* The loop is at a point from which it goes on emitting moves.
thread_is_pulling(s) == s.rcs_thread \in {"check", "move"}

stop_rcs(s) == [s EXCEPT !.is_active = FALSE, !.button_press_time = None]

start_rcs(s) ==
    IF s.is_active THEN s
    ELSE IF s.rcs_thread # "None" /\ thread_is_alive(s)
         THEN [s EXCEPT !.is_active = TRUE]
         ELSE [s EXCEPT !.is_active = TRUE, !.rcs_thread = "check"]

is_rcs_active(s) == s.is_active

\* Mutant: the hold has to exceed activation_delay (> for >=).
check_rcs_activation_strict(s, t, b, activation_delay, rapid_click_threshold) ==
    IF b THEN
        IF s.button_press_time = None THEN
            IF s.last_click_time > 0 /\ t - s.last_click_time <= rapid_click_threshold
            THEN [ret |-> TRUE,
                  st |-> [s EXCEPT !.button_press_time = t, !.last_click_time = t]]
            ELSE [ret |-> (t - t > activation_delay),
                  st |-> [s EXCEPT !.button_press_time = t, !.last_click_time = t]]
        ELSE [ret |-> (t - s.button_press_time > activation_delay), st |-> s]
    ELSE
        [ret |-> FALSE,
         st |-> [s EXCEPT !.last_click_time =
                              IF s.button_press_time # None THEN t ELSE @,
                          !.button_press_time = None]]

\* check_rcs_activation at time t, its read of is_button_pressed(0) being b.
\* The result is the returned flag and the state it leaves.
check_rcs_activation(s, t, b, activation_delay, rapid_click_threshold) ==
    IF b THEN
        IF s.button_press_time = None THEN
            IF s.last_click_time > 0 /\ t - s.last_click_time <= rapid_click_threshold
            THEN [ret |-> TRUE,
                  st |-> [s EXCEPT !.button_press_time = t, !.last_click_time = t]]
            ELSE [ret |-> (t - t >= activation_delay),
                  st |-> [s EXCEPT !.button_press_time = t, !.last_click_time = t]]
        ELSE [ret |-> (t - s.button_press_time >= activation_delay), st |-> s]
    ELSE
        [ret |-> FALSE,
         st |-> [s EXCEPT !.last_click_time =
                              IF s.button_press_time # None THEN t ELSE @,
                          !.button_press_time = None]]

\* Mutant: a released button does not stop RCS (only the feature flag does).
process_rcs_no_stop(s, t, enablercs, b1, b2, activation_delay, rapid_click_threshold) ==
    IF ~enablercs THEN
        [ret |-> FALSE, should_activate |-> FALSE, st |-> stop_rcs(s)]
    ELSE
        LET chk == check_rcs_activation(s, t, b1, activation_delay, rapid_click_threshold)
            st2 == IF chk.ret THEN start_rcs(chk.st) ELSE chk.st
        IN [ret |-> is_rcs_active(st2), should_activate |-> chk.ret, st |-> st2]

\* process_rcs: enablercs is the feature flag, b1 the read made by
\* check_rcs_activation, b2 the read of line 167 (made only when activation
\* does not hold).  The two reads are separate and may differ.
process_rcs(s, t, enablercs, b1, b2, activation_delay, rapid_click_threshold) ==
    IF ~enablercs THEN
        [ret |-> FALSE, should_activate |-> FALSE, st |-> stop_rcs(s)]
    ELSE
        LET chk == check_rcs_activation(s, t, b1, activation_delay, rapid_click_threshold)
            st2 == IF chk.ret THEN start_rcs(chk.st)
                   ELSE IF ~b2 THEN stop_rcs(chk.st) ELSE chk.st
        IN [ret |-> is_rcs_active(st2), should_activate |-> chk.ret, st |-> st2]

\* ------------------------------------------------ observation history
\* btn         the last read of the primary button made by the RCS code
\* held_since  the time of the check_rcs_activation call that first observed
\*             the current press (None while the last read was not "pressed")
\* released_at the time of the read that observed the last release (0: none)
\* flag_off    process_rcs has run with the feature flag off since the
\*             current press was first observed
\* The read made by check_rcs_activation.
ObserveCheck(o, t, b1) ==
    IF b1
    THEN IF o.btn = "pressed" THEN o
         ELSE [o EXCEPT !.btn = "pressed", !.held_since = t, !.flag_off = FALSE]
    ELSE IF o.btn = "pressed"
         THEN [o EXCEPT !.btn = "released", !.held_since = None,
                        !.released_at = t]
         ELSE [o EXCEPT !.btn = "released", !.held_since = None]

\* The read of line 167, made when activation does not hold.
ObserveRead2(o, t, b2) ==
    IF b2 \/ o.btn # "pressed" THEN o
    ELSE [o EXCEPT !.btn = "released", !.held_since = None,
                   !.released_at = t]

Observe(o, t, enablercs, b1, b2, should_activate) ==
    IF ~enablercs THEN [o EXCEPT !.flag_off = TRUE]
    ELSE IF should_activate THEN ObserveCheck(o, t, b1)
    ELSE ObserveRead2(ObserveCheck(o, t, b1), t, b2)

NoCall == [made |-> FALSE]

\* The record of a process_rcs call.  A read that was not made is recorded
\* FALSE; held_since and hold_flag_off are the history as check_rcs_activation
\* left it, prev_* the history before the call.
RcsCallRecord(s, o, t, enablercs, b1, b2, activation_delay, rapid_click_threshold) ==
    LET r == process_rcs(s, t, enablercs, b1, b2, activation_delay, rapid_click_threshold)
        o1 == IF enablercs THEN ObserveCheck(o, t, b1) ELSE o
    IN [made |-> TRUE,
        enablercs |-> enablercs,
        b1 |-> enablercs /\ b1,
        read2 |-> enablercs /\ ~r.should_activate,
        b2 |-> enablercs /\ ~r.should_activate /\ b2,
        activation_delay |-> IF enablercs THEN activation_delay ELSE 0,
        rapid_click_threshold |-> IF enablercs THEN rapid_click_threshold ELSE 0,
        should_activate |-> r.should_activate,
        ret |-> r.ret,
        was_active |-> s.is_active,
        held_since |-> IF enablercs THEN o1.held_since ELSE None,
        hold_flag_off |-> enablercs /\ o1.flag_off,
        prev_btn |-> o.btn,
        prev_released_at |-> o.released_at]

\* One call of process_rcs from the frame loop.
ProcessRcsStep(enablercs, b1, b2, activation_delay, rapid_click_threshold) ==
    LET r == process_rcs(rcs_state, now, enablercs, b1, b2,
                         activation_delay, rapid_click_threshold)
    IN /\ rcs_state' = r.st
       /\ rcs_call' = RcsCallRecord(rcs_state, obs, now, enablercs, b1, b2,
                                    activation_delay, rapid_click_threshold)
       /\ obs' = Observe(obs, now, enablercs, b1, b2, r.should_activate)

\* Nothing else runs between a call's return and the caller taking its result.
Idle == ~rcs_call.made /\ ~frame_call.made /\ ~smoke_call.made

ProcessRcs ==
    /\ Idle
    /\ \E enablercs \in BOOLEAN, b1 \in BOOLEAN, b2 \in BOOLEAN :
        /\ ProcessRcsStep(enablercs, b1, b2, tracker.rcs_activation_delay,
                          tracker.rcs_rapid_click_threshold)
        /\ UNCHANGED <<now, tracker, frame_call, detector, smoke_call, SCIPY_AVAILABLE, shape_call, pid, dispatch_call, serial, movement_lock_state, mouse_call, listener, capture, capture_call, gst, gst_call, net, net_call, ndi, ndi_call, mss, mss_call, strafe, strafe_call, monitor, monitor_call, hsv, crop, pull, lst, rdr, req, logs>>

\* The settings UI changes the RCS parameters kept on the tracker.
SetRcsParams ==
    /\ Idle
    /\ \E d \in Delays, th \in Thresholds :
        /\ <<d, th>> # <<tracker.rcs_activation_delay, tracker.rcs_rapid_click_threshold>>
        /\ tracker' = [tracker EXCEPT !.rcs_activation_delay = d,
                                      !.rcs_rapid_click_threshold = th]
    /\ UNCHANGED <<now, rcs_state, rcs_call, obs, frame_call, detector, smoke_call, SCIPY_AVAILABLE, shape_call, pid, dispatch_call, serial, movement_lock_state, mouse_call, listener, capture, capture_call, gst, gst_call, net, net_call, ndi, ndi_call, mss, mss_call, strafe, strafe_call, monitor, monitor_call, hsv, crop, pull, lst, rdr, req, logs>>

\* _rcs_pull_loop, one iteration in three steps: the locked test of is_active,
\* controller.move (which may raise), and the return of the thread function.
PullCheck ==
    /\ Idle
    /\ rcs_state.rcs_thread = "check"
    /\ rcs_state' = [rcs_state EXCEPT !.rcs_thread =
                        IF rcs_state.is_active THEN "move" ELSE "exiting"]
    /\ UNCHANGED <<now, rcs_call, obs, tracker, frame_call, detector, smoke_call, SCIPY_AVAILABLE, shape_call, pid, dispatch_call, serial, movement_lock_state, mouse_call, listener, capture, capture_call, gst, gst_call, net, net_call, ndi, ndi_call, mss, mss_call, strafe, strafe_call, monitor, monitor_call, hsv, crop, pull, lst, rdr, req, logs>>

PullMove ==
    /\ Idle
    /\ rcs_state.rcs_thread = "move"
    /\ \E move_ok \in BOOLEAN :
        rcs_state' = [rcs_state EXCEPT !.rcs_thread =
                        IF move_ok THEN "check" ELSE "exiting"]
    /\ UNCHANGED <<now, rcs_call, obs, tracker, frame_call, detector, smoke_call, SCIPY_AVAILABLE, shape_call, pid, dispatch_call, serial, movement_lock_state, mouse_call, listener, capture, capture_call, gst, gst_call, net, net_call, ndi, ndi_call, mss, mss_call, strafe, strafe_call, monitor, monitor_call, hsv, crop, pull, lst, rdr, req, logs>>

PullExit ==
    /\ Idle
    /\ rcs_state.rcs_thread = "exiting"
    /\ rcs_state' = [rcs_state EXCEPT !.rcs_thread = "dead"]
    /\ UNCHANGED <<now, rcs_call, obs, tracker, frame_call, detector, smoke_call, SCIPY_AVAILABLE, shape_call, pid, dispatch_call, serial, movement_lock_state, mouse_call, listener, capture, capture_call, gst, gst_call, net, net_call, ndi, ndi_call, mss, mss_call, strafe, strafe_call, monitor, monitor_call, hsv, crop, pull, lst, rdr, req, logs>>

\* The clock advances between calls.
Tick ==
    /\ Idle
    /\ now < MaxTime
    /\ now' = now + 1
    /\ UNCHANGED <<rcs_state, rcs_call, obs, tracker, frame_call, detector, smoke_call, SCIPY_AVAILABLE, shape_call, pid, dispatch_call, serial, movement_lock_state, mouse_call, listener, capture, capture_call, gst, gst_call, net, net_call, ndi, ndi_call, mss, mss_call, strafe, strafe_call, monitor, monitor_call, hsv, crop, pull, lst, rdr, req, logs>>

\* The frame loop takes the result of process_rcs and goes on.
RcsReturn ==
    /\ rcs_call.made /\ ~frame_call.made
    /\ rcs_call' = NoCall
    /\ UNCHANGED <<now, rcs_state, obs, tracker, frame_call, detector, smoke_call, SCIPY_AVAILABLE, shape_call, pid, dispatch_call, serial, movement_lock_state, mouse_call, listener, capture, capture_call, gst, gst_call, net, net_call, ndi, ndi_call, mss, mss_call, strafe, strafe_call, monitor, monitor_call, hsv, crop, pull, lst, rdr, req, logs>>

RestScipy ==
    SCIPY_AVAILABLE = FALSE

RestShape ==
    shape_call = [made |-> FALSE]

RestPid ==
    pid = [p \in {"Main", "Sec"} |-> [mode |-> "Normal", integral |-> 0, prev_error |-> 0, carried |-> FALSE]]

RestDispatch ==
    dispatch_call = [made |-> FALSE]

RestSerial ==
    serial = [is_connected |-> FALSE, mask_applied_idx |-> None, device_buttons |-> {}, device_mx |-> FALSE, device_my |-> FALSE]

RestMovement ==
    movement_lock_state = [lock_x |-> FALSE, lock_y |-> FALSE, main_aimbot_locked |-> FALSE, sec_aimbot_locked |-> FALSE, last_main_move_time |-> 0, last_sec_move_time |-> 0]

RestMouseCall ==
    mouse_call = [made |-> FALSE]

RestListener ==
    listener = [alive |-> FALSE, has_ref |-> FALSE, last_value |-> 0, button_states |-> [i \in 0..4 |-> FALSE]]

RestCapture ==
    capture = [mode |-> "NDI", ndi |-> FALSE, udp |-> FALSE, capture_card_camera |-> "None", capture_card_gstreamer_camera |-> "None", mss_capture |-> "None", HAS_UDP |-> TRUE, HAS_CAPTURECARD |-> TRUE, HAS_MSS |-> TRUE, HAS_GSTREAMER |-> TRUE]

RestCaptureCall ==
    capture_call = [made |-> FALSE]

RestGst ==
    gst = [exists |-> FALSE, running |-> FALSE, pipeline |-> "None", appsink |-> "None", state |-> "NULL"]

RestGstCall ==
    gst_call = [made |-> FALSE]

RestNet ==
    net = [is_connected |-> FALSE, last_connect_error |-> "", kmnet_module |-> FALSE]

RestNetCall ==
    net_call = [made |-> FALSE]

RestNdi ==
    ndi = [ndi_sources |-> <<>>, selected_source |-> "None", connected |-> FALSE, receiver_source |-> "None"]

RestNdiCall ==
    ndi_call = [made |-> FALSE]

RestMss ==
    mss = [exists |-> FALSE, monitor_index |-> 1, fov_x |-> 3200, fov_y |-> 3200, connected |-> FALSE, monitor_info |-> None]

RestMssCall ==
    mss_call = [made |-> FALSE]

RestStrafe ==
    strafe = [neutral_since |-> None, time |-> 0, timer_start |-> None, all_neutral |-> TRUE]

RestStrafeCall ==
    strafe_call = [made |-> FALSE]

RestMonitor ==
    monitor = [button_counts |-> [i \in 0..4 |-> 0], last_button_states |-> [i \in 0..4 |-> FALSE], is_enabled |-> FALSE, reads |-> <<>>, reset_at |-> 0]

RestMonitorCall ==
    monitor_call = [made |-> FALSE]

RestHsv ==
    hsv = [lo |-> [ch \in {"h", "s", "v"} |-> 0], hi |-> [ch \in {"h", "s", "v"} |-> 255], config_min |-> [ch \in {"h", "s", "v"} |-> 0], config_max |-> [ch \in {"h", "s", "v"} |-> 255], eyedropper_active |-> FALSE, start_ok |-> TRUE, ops |-> 0, last |-> [op |-> "init", h |-> 0, s |-> 0, v |-> 0]]

RestCrop ==
    crop = [config |-> [capture_width |-> 1920, capture_height |-> 1080, capture_range_x |-> 0, capture_range_y |-> 0, capture_offset_x |-> 0, capture_offset_y |-> 0, region_size |-> 200], op |-> "none", rect |-> <<0, 0, 0, 0>>]

RestPull ==
    pull = [is_active |-> FALSE, thread |-> [pos |-> "None", pull_speed |-> 0, cycle |-> 0], cycle |-> 0, cycle_speed |-> 0, move |-> [made |-> FALSE]]

RestLst ==
    lst = [is_connected |-> FALSE, ref |-> 0, pos |-> <<>>, started |-> 0, button_states |-> [i \in 0..4 |-> FALSE], exited |-> 0]

RestRdr ==
    rdr = [running |-> TRUE, stop_set |-> FALSE, pipeline |-> "handle", appsink |-> "handle", state |-> "PLAYING", unreffed |-> FALSE, has_try |-> TRUE, pull_timeout_ms |-> 5, pos |-> "test", arg |-> "None", held |-> FALSE, latest_frame |-> FALSE, stop_pos |-> "idle", skip |-> FALSE, used_after_release |-> FALSE]

RestReq ==
    req = [main |-> [made |-> FALSE, lock_x |-> FALSE, lock_y |-> FALSE, time |-> 0], sec |-> [made |-> FALSE, lock_x |-> FALSE, lock_y |-> FALSE, time |-> 0]]

RestLogs ==
    logs = [buffer |-> <<>>, appended |-> 0, call |-> [made |-> FALSE]]

InitDetector ==
    /\ detector = [enabled |-> FALSE, frame_counter |-> 0, canli_hedefler |-> <<>>, olu_ikonlar |-> <<>>,
                   sonraki_hedef_id |-> 1]
    /\ smoke_call = NoCall

InitRCS ==
    /\ now = 1
    /\ rcs_state = [is_active |-> FALSE, last_click_time |-> 0,
                    button_press_time |-> None, rcs_thread |-> "None"]
    /\ rcs_call = NoCall
    /\ obs = [btn |-> "unknown", held_since |-> None, released_at |-> 0,
              flag_off |-> FALSE]

Init ==
    /\ InitRCS
    /\ InitDetector
    /\ tracker \in [rcs_activation_delay : Delays, rcs_rapid_click_threshold : Thresholds,
                    in_game_sens : {700}, mouse_dpi : {800}]
    /\ frame_call = NoCall
    /\ RestScipy
    /\ RestShape
    /\ RestPid
    /\ RestDispatch
    /\ RestSerial
    /\ RestMovement
    /\ RestMouseCall
    /\ RestListener
    /\ RestCapture
    /\ RestCaptureCall
    /\ RestGst
    /\ RestGstCall
    /\ RestNet
    /\ RestNetCall
    /\ RestNdi
    /\ RestNdiCall
    /\ RestMss
    /\ RestMssCall
    /\ RestStrafe
    /\ RestStrafeCall
    /\ RestMonitor
    /\ RestMonitorCall
    /\ RestHsv
    /\ RestCrop
    /\ RestPull
    /\ RestLst
    /\ RestRdr
    /\ RestReq
    /\ RestLogs

\* The recoil control, the tracker settings and the detector as constructed.
InitCore ==
    /\ InitRCS
    /\ tracker = [rcs_activation_delay |-> 1, rcs_rapid_click_threshold |-> 1,
                  in_game_sens |-> 700, mouse_dpi |-> 800]
    /\ frame_call = NoCall
    /\ InitDetector

NextRCS == Tick \/ ProcessRcs \/ RcsReturn \/ SetRcsParams \/ PullCheck \/ PullMove \/ PullExit

SpecRCS == Init /\ [][NextRCS]_vars

\* ============================================================= normal.py
\* Lengths are pixels; a movement is kept in thousandths (ndx = 146 is 0.146),
\* a sensitivity, speed or smoothness in hundredths (sens100 = 700 is 7.0).

Max(a, b) == IF a >= b THEN a ELSE b
Min(a, b) == IF a <= b THEN a ELSE b

\* calculate_movement: deg_per_count = 360 / ((54.54 / max(sens, 0.01)) * (dpi / 2.54)),
\* which is 360 * 2.54 * max(sens, 0.01) / (54.54 * dpi); in thousandths,
\* 3600 * 254 * sens100 / (5454 * dpi) = 152400 * sens100 / (909 * dpi).
calculate_movement(dx, dy, sens100, dpi) ==
    LET deg_per_count == (152400 * Max(sens100, 1)) \div (909 * dpi)
    IN [ndx |-> dx * deg_per_count, ndy |-> dy * deg_per_count]

\* tracker._clip_movement: each component is limited to +-ClipLimit.
ClipLimit == 127000
clip_movement(ndx, ndy) ==
    [ddx |-> Max(0 - ClipLimit, Min(ClipLimit, ndx)),
     ddy |-> Max(0 - ClipLimit, Min(ClipLimit, ndy))]

\* A target is the tuple the caller passes: a sequence of numbers.
\* min(targets, key=lambda t: t[2]) raises IndexError when a tuple is shorter
\* than 3; it returns the first tuple with the least key.
min_raises(targets) == \E i \in 1..Len(targets) : Len(targets[i]) < 3

best_target(targets) ==
    targets[CHOOSE i \in 1..Len(targets) :
                /\ \A j \in 1..Len(targets) : targets[i][3] <= targets[j][3]
                /\ \A j \in 1..(i - 1) : targets[j][3] > targets[i][3]]

\* Lines 136-141: a tuple of 5 or more is unpacked into exactly five names
\* (ValueError when it holds more), a shorter one is read as the legacy format.
unpack_raises(best) == Len(best) >= 5 /\ Len(best) # 5

unpack(best) ==
    IF Len(best) >= 5
    THEN [cx |-> best[1], cy |-> best[2], head_y_min |-> best[4], body_y_max |-> best[5]]
    ELSE [cx |-> best[1], cy |-> best[2], head_y_min |-> None, body_y_max |-> None]

\* distance_to_center <= fov, for math.hypot(ex, ey) and a fov >= 0.
within(ex, ey, fov) == fov >= 0 /\ ex * ex + ey * ey <= fov * fov
inside(ex, ey, fov) == fov > 0 /\ ex * ex + ey * ey < fov * fov

\* Lines 161-169: in "nearest" mode the Y delta is dropped while the aimed-at
\* Y lies between head and body.
nearest_dy(dy, aim_type, cy, aim_offsetY, head_y_min, body_y_max) ==
    IF /\ aim_type = "nearest" /\ head_y_min # None /\ body_y_max # None
       /\ head_y_min < body_y_max
       /\ head_y_min <= cy + aim_offsetY /\ cy + aim_offsetY <= body_y_max
    THEN 0 ELSE dy

\* Mutant: RCS does not take the Y axis.
rcs_dy_ignored(dy, rcs_active) == dy

\* Lines 171-173: while RCS runs the aimbot sends horizontal movement only.
rcs_dy(dy, rcs_active) == IF rcs_active THEN 0 ELSE dy

\* The try block of one profile (Main: lines 149-201, Secondary: 208-259).
\* p holds the profile's settings and where the block raises, if it does:
\* "offset" (float() of a setting, before anything is enqueued) or "log_move"
\* (after move_queue.put, before the profile is marked active).
\* The result: whether a command was enqueued, the command, and whether the
\* block ran to its end.
aim_block(name, p, t, center, rcs_active, trk) ==
    IF p.raises = "offset" THEN [put |-> FALSE, cmd |-> <<>>, completed |-> FALSE]
    ELSE
        LET dx == (t.cx + p.aim_offsetX) - center.x
            dy0 == (t.cy + p.aim_offsetY) - center.y
            dy1 == nearest_dy(dy0, p.aim_type, t.cy, p.aim_offsetY,
                              t.head_y_min, t.body_y_max)
            dy == rcs_dy(dy1, rcs_active)
            n == calculate_movement(dx, dy, trk.in_game_sens, trk.mouse_dpi)
            smooth == inside(t.cx - center.x, t.cy - center.y, p.normalsmoothfov)
            sx == IF smooth THEN (n.ndx * p.normal_x_speed) \div Max(p.normalsmooth, 1)
                  ELSE (n.ndx * p.normal_x_speed) \div 100
            sy == IF smooth THEN (n.ndy * p.normal_y_speed) \div Max(p.normalsmooth, 1)
                  ELSE (n.ndy * p.normal_y_speed) \div 100
            c == clip_movement(sx, sy)
        IN [put |-> TRUE,
            cmd |-> [source |-> name, ddx |-> c.ddx, ddy |-> c.ddy],
            completed |-> p.raises # "log_move"]

\* A profile's gate: enabled, a button selected, and that button read pressed.
gate_open(g) == g.enabled /\ g.selected_btn # None /\ g.pressed

\* Mutant: the Secondary profile is tried whether or not Main has fired.
sec_is_tried_always(main_aimbot_active) == TRUE

\* Line 204: the Secondary profile is tried only when Main has not fired.
sec_is_tried(main_aimbot_active) == ~main_aimbot_active

\* Lines 261-274: process_triggerbot is called once, inside its own try block.
triggerbot_calls(cmds) == 1

\* process_normal_mode, after process_rcs has returned rcs_active.
\* in.targets, in.frame; in.main and in.sec hold each profile's gate (g), FOV
\* and block (p); in.trigger_raises says whether process_triggerbot raises.
process_normal_mode(in, rcs_active, trk) ==
    LET center == [x |-> in.frame.xres \div 2, y |-> in.frame.yres \div 2]
        raised == in.targets # <<>> /\
                  (min_raises(in.targets) \/ unpack_raises(best_target(in.targets)))
        has_target == in.targets # <<>> /\ ~raised
        t == unpack(best_target(in.targets))
        main_fires == /\ has_target
                      /\ within(t.cx - center.x, t.cy - center.y, in.main.fovsize)
                      /\ gate_open(in.main.g)
        main == IF main_fires THEN aim_block("Main Aimbot", in.main.p, t, center, rcs_active, trk)
                ELSE [put |-> FALSE, cmd |-> <<>>, completed |-> FALSE]
        main_aimbot_active == main.completed
        sec_fires == /\ has_target
                     /\ sec_is_tried(main_aimbot_active)
                     /\ within(t.cx - center.x, t.cy - center.y, in.sec.fovsize)
                     /\ gate_open(in.sec.g)
        sec == IF sec_fires THEN aim_block("Sec Aimbot", in.sec.p, t, center, rcs_active, trk)
               ELSE [put |-> FALSE, cmd |-> <<>>, completed |-> FALSE]
        cmds == (IF main.put THEN <<main.cmd>> ELSE <<>>)
                    \o (IF sec.put THEN <<sec.cmd>> ELSE <<>>)
    IN [made |-> TRUE,
        raised |-> raised,
        cmds |-> IF raised THEN <<>> ELSE cmds,
        triggerbot_calls |-> IF raised THEN 0 ELSE triggerbot_calls(cmds),
        rcs_active |-> rcs_active,
        has_target |-> has_target,
        in_main_fov |-> has_target /\ within(t.cx - center.x, t.cy - center.y, in.main.fovsize),
        in_sec_fov |-> has_target /\ within(t.cx - center.x, t.cy - center.y, in.sec.fovsize),
        main_tried |-> main_fires, sec_tried |-> sec_fires,
        main_raised |-> main_fires /\ ~main.completed,
        sec_raised |-> sec_fires /\ ~sec.completed,
        in |-> in]

\* ------------------------------------------------------------ the frames
\* The centre of a 20x20 frame is (10, 10).
Frames == {[xres |-> 20, yres |-> 20]}

\* (cx, cy, distance[, head_y_min, body_y_max]) and tuples of other lengths.
T3 == <<12, 10, 2>>
T5 == <<12, 14, 4, 12, 16>>
T5high == <<12, 14, 4, 15, 16>>
T5none == <<13, 10, 3, None, None>>
Tfar == <<40, 10, 30>>
T2 == <<12, 10>>
T4 == <<12, 10, 2, 9>>
T6 == <<12, 10, 2, 8, 12, 1>>

TargetLists ==
    {<<>>, <<T3>>, <<T5>>, <<T5high>>, <<T5none>>, <<T4>>, <<Tfar, T5>>,
     <<T2>>, <<T6>>, <<T3, T2>>, <<Tfar, T6>>}

ClosedGate == [enabled |-> FALSE, selected_btn |-> None, pressed |-> FALSE]
Gates ==
    {[enabled |-> TRUE, selected_btn |-> 1, pressed |-> TRUE],
     [enabled |-> FALSE, selected_btn |-> 1, pressed |-> TRUE],
     [enabled |-> TRUE, selected_btn |-> None, pressed |-> FALSE],
     [enabled |-> TRUE, selected_btn |-> 1, pressed |-> FALSE]}

FovSizes == {1, 5}

AimSettings ==
    {[aim_type |-> "head", aim_offsetX |-> 0, aim_offsetY |-> 0],
     [aim_type |-> "nearest", aim_offsetX |-> 0, aim_offsetY |-> 0],
     [aim_type |-> "nearest", aim_offsetX |-> 1, aim_offsetY |-> 2]}

Raises == {"no", "offset", "log_move"}

UnreadBlock ==
    [aim_type |-> "head", aim_offsetX |-> 0, aim_offsetY |-> 0, normalsmoothfov |-> 3,
     normal_x_speed |-> 150, normal_y_speed |-> 150, normalsmooth |-> 200, raises |-> "no"]

\* The settings a profile's block reads; a block that does not run reads none.
Blocks(runs) ==
    IF runs
    THEN {[UnreadBlock EXCEPT !.aim_type = a.aim_type, !.aim_offsetX = a.aim_offsetX,
                              !.aim_offsetY = a.aim_offsetY, !.raises = r] :
            a \in AimSettings, r \in Raises}
    ELSE {UnreadBlock}

\* The gates and FOVs a call reads: none when the target list is empty or
\* the selection of the target raises.
GateReads(targets) ==
    IF targets # <<>> /\ ~min_raises(targets) /\ ~unpack_raises(best_target(targets))
    THEN [g : Gates, fovsize : FovSizes, p : {UnreadBlock}]
    ELSE {[g |-> ClosedGate, fovsize |-> 1, p |-> UnreadBlock]}

\* One call of process_normal_mode: process_rcs first, then the aim profiles
\* and the triggerbot.
ProcessNormalMode ==
    /\ Idle
    /\ \E enablercs \in BOOLEAN, b1 \in BOOLEAN :
       \E b2 \in IF enablercs
                    /\ ~process_rcs(rcs_state, now, enablercs, b1, TRUE,
                                    tracker.rcs_activation_delay,
                                    tracker.rcs_rapid_click_threshold).should_activate
                 THEN BOOLEAN ELSE {FALSE} :
       \E targets \in TargetLists, frame \in Frames, trigger_raises \in BOOLEAN :
       \E m \in GateReads(targets), s \in GateReads(targets) :
       LET rcs_active == process_rcs(rcs_state, now, enablercs, b1, b2,
                                     tracker.rcs_activation_delay,
                                     tracker.rcs_rapid_click_threshold).ret
           probe == [targets |-> targets, frame |-> frame, trigger_raises |-> trigger_raises,
                     main |-> m, sec |-> s]
       IN \E pm \in Blocks(process_normal_mode(probe, rcs_active, tracker).main_tried) :
          \E ps \in Blocks(process_normal_mode([probe EXCEPT !.main.p = pm],
                                               rcs_active, tracker).sec_tried) :
              /\ ProcessRcsStep(enablercs, b1, b2, tracker.rcs_activation_delay,
                                tracker.rcs_rapid_click_threshold)
              /\ frame_call' = process_normal_mode(
                                   [probe EXCEPT !.main.p = pm, !.sec.p = ps],
                                   rcs_active, tracker)
              /\ UNCHANGED <<now, tracker, detector, smoke_call, SCIPY_AVAILABLE, shape_call, pid, dispatch_call, serial, movement_lock_state, mouse_call, listener, capture, capture_call, gst, gst_call, net, net_call, ndi, ndi_call, mss, mss_call, strafe, strafe_call, monitor, monitor_call, hsv, crop, pull, lst, rdr, req, logs>>

\* The frame loop goes on to the next frame.
FrameReturn ==
    /\ frame_call.made
    /\ frame_call' = NoCall
    /\ rcs_call' = NoCall
    /\ UNCHANGED <<now, rcs_state, obs, tracker, detector, smoke_call, SCIPY_AVAILABLE, shape_call, pid, dispatch_call, serial, movement_lock_state, mouse_call, listener, capture, capture_call, gst, gst_call, net, net_call, ndi, ndi_call, mss, mss_call, strafe, strafe_call, monitor, monitor_call, hsv, crop, pull, lst, rdr, req, logs>>

InitNormal ==
    /\ InitCore
    /\ RestScipy
    /\ RestShape
    /\ RestPid
    /\ RestDispatch
    /\ RestSerial
    /\ RestMovement
    /\ RestMouseCall
    /\ RestListener
    /\ RestCapture
    /\ RestCaptureCall
    /\ RestGst
    /\ RestGstCall
    /\ RestNet
    /\ RestNetCall
    /\ RestNdi
    /\ RestNdiCall
    /\ RestMss
    /\ RestMssCall
    /\ RestStrafe
    /\ RestStrafeCall
    /\ RestMonitor
    /\ RestMonitorCall
    /\ RestHsv
    /\ RestCrop
    /\ RestPull
    /\ RestLst
    /\ RestRdr
    /\ RestReq
    /\ RestLogs

NextNormal == ProcessNormalMode \/ FrameReturn

SpecNormal == InitNormal /\ [][NextNormal]_vars

\* ================================================ anti_smoke_detector.py
\* A cluster is the list of its pixels <<x, y>>.  canli_hedefler, a dict in
\* the code, is the sequence of its entries in insertion order, each with its
\* key in the field id.

min_pixel_count == 15
max_hedef_mesafe == 30
hedef_kayip_suresi == 6
olu_ikon_suresi == 120

RECURSIVE SumSeq(_)
SumSeq(s) == IF s = <<>> THEN 0 ELSE Head(s) + SumSeq(Tail(s))

max_pixel_count == 500
min_area == 50
max_width == 80
max_height == 80
\* max_aspect_ratio = 1.3, max_pixel_density = 0.7, continuous_strip_threshold
\* = 0.6 and min_convexity_ratio = 0.85, in tenths and hundredths.
max_aspect_ratio_x10 == 13
max_pixel_density_x10 == 7
continuous_strip_threshold_x10 == 6
min_convexity_ratio_x100 == 85

MinOf(S) == CHOOSE x \in S : \A y \in S : x <= y
MaxOf(S) == CHOOSE x \in S : \A y \in S : x >= y

x_coords(cluster) == {cluster[i][1] : i \in 1..Len(cluster)}
y_coords(cluster) == {cluster[i][2] : i \in 1..Len(cluster)}
bbox_width(cluster) == MaxOf(x_coords(cluster)) - MinOf(x_coords(cluster)) + 1
bbox_height(cluster) == MaxOf(y_coords(cluster)) - MinOf(y_coords(cluster)) + 1

pixel_set(cluster) == {cluster[i] : i \in 1..Len(cluster)}

\* The pixels of the set that the DFS of _count_connected_components reaches
\* from the pixels of comp: the closure under the 8-neighbourhood.
RECURSIVE connected_component(_, _)
connected_component(pixels, comp) ==
    LET next == comp \cup {q \in pixels : \E p \in comp :
                               /\ q[1] - p[1] \in -1..1
                               /\ q[2] - p[2] \in -1..1}
    IN IF next = comp THEN comp ELSE connected_component(pixels, next)

RECURSIVE count_components(_)
count_components(pixels) ==
    IF pixels = {} THEN 0
    ELSE LET p == CHOOSE p \in pixels : TRUE
         IN 1 + count_components(pixels \ connected_component(pixels, {p}))

count_connected_components(cluster) ==
    IF cluster = <<>> THEN 0 ELSE count_components(pixel_set(cluster))

RECURSIVE SortedSeq(_)
SortedSeq(S) == IF S = {} THEN <<>> ELSE <<MinOf(S)>> \o SortedSeq(S \ {MinOf(S)})

\* The number of steps of at most 2 pixels from position i - 1 on, up to the
\* first wider step.
RECURSIVE continuous_steps(_, _)
continuous_steps(x_positions, i) ==
    IF i > Len(x_positions) THEN 0
    ELSE IF x_positions[i] - x_positions[i - 1] <= 2
         THEN 1 + continuous_steps(x_positions, i + 1)
         ELSE 0

check_horizontal_density(cluster, width, height) ==
    IF cluster = <<>> \/ height = 0 THEN FALSE
    ELSE LET strip(y) == SortedSeq({p[1] : p \in {q \in pixel_set(cluster) : q[2] = y}})
             continuous == {y \in y_coords(cluster) :
                                /\ Len(strip(y)) >= 3
                                /\ 10 * (1 + continuous_steps(strip(y), 2))
                                   >= 7 * Len(strip(y))}
         IN 10 * Cardinality(continuous)
            >= continuous_strip_threshold_x10 * Cardinality(y_coords(cluster))

Cross3(p, q, r) == (q[1] - p[1]) * (r[2] - p[2]) - (q[2] - p[2]) * (r[1] - p[1])

\* p -> q is an edge of the convex hull of the pixels, run through counter-
\* clockwise: no pixel lies to its right, and the pixels on its line lie
\* between p and q.
hull_edge(pixels, p, q) ==
    /\ p # q
    /\ \A r \in pixels :
           /\ Cross3(p, q, r) >= 0
           /\ Cross3(p, q, r) = 0 =>
                  /\ (r[1] - p[1]) * (r[1] - q[1]) <= 0
                  /\ (r[2] - p[2]) * (r[2] - q[2]) <= 0

RECURSIVE SumOver(_)
SumOver(edges) ==
    IF edges = {} THEN 0
    ELSE LET e == CHOOSE e \in edges : TRUE
         IN (e[1][1] * e[2][2] - e[1][2] * e[2][1]) + SumOver(edges \ {e})

\* Twice ConvexHull(points).volume, the area of the hull of the pixels: the
\* shoelace sum over the hull's edges.  It is 0 for pixels on one line, for
\* which ConvexHull raises and the code returns the ratio 0.0 as well.
convex_hull_area_x2(cluster) ==
    LET pixels == pixel_set(cluster)
    IN SumOver({e \in pixels \X pixels : hull_edge(pixels, e[1], e[2])})

\* _calculate_convexity_ratio, as the fraction num / den.
calculate_convexity_ratio(cluster) ==
    IF Len(cluster) < 3 THEN [num |-> 0, den |-> 1]
    ELSE LET convex_area_x2 == IF SCIPY_AVAILABLE
                               THEN convex_hull_area_x2(cluster)
                               ELSE 2 * bbox_width(cluster) * bbox_height(cluster)
             actual_area == Len(cluster)
         IN IF convex_area_x2 > 0
            THEN IF 2 * actual_area > convex_area_x2
                 THEN [num |-> 1, den |-> 1]
                 ELSE [num |-> 2 * actual_area, den |-> convex_area_x2]
            ELSE [num |-> 0, den |-> 1]

\* Mutant: a cluster of exactly min_pixel_count pixels is too small (<= for <).
too_few_pixels_inclusive(pixel_count) == pixel_count <= min_pixel_count

too_few_pixels(pixel_count) == pixel_count < min_pixel_count

is_shape_plausible(enabled, cluster) ==
    IF cluster = <<>> \/ ~enabled THEN TRUE
    ELSE LET pixel_count == Len(cluster)
             width == bbox_width(cluster)
             height == bbox_height(cluster)
             area == width * height
             connected_components == count_connected_components(cluster)
             convexity_ratio == calculate_convexity_ratio(cluster)
         IN IF too_few_pixels(pixel_count) THEN FALSE
            ELSE IF pixel_count > max_pixel_count THEN FALSE
            ELSE IF area < min_area THEN FALSE
            ELSE IF width > max_width \/ height > max_height THEN FALSE
            ELSE IF height = 0 THEN FALSE
            ELSE IF 2 * height > 3 * width THEN TRUE
            ELSE IF 10 * width > max_aspect_ratio_x10 * height THEN FALSE
            ELSE IF connected_components < 3 /\ pixel_count > 50 THEN FALSE
            ELSE IF /\ 10 * pixel_count > max_pixel_density_x10 * area
                    /\ check_horizontal_density(cluster, width, height)
                 THEN FALSE
            ELSE IF /\ 100 <= pixel_count /\ pixel_count <= 300
                    /\ 2 * pixel_count > area /\ connected_components < 5
                 THEN FALSE
            ELSE IF 100 * convexity_ratio.num
                    < min_convexity_ratio_x100 * convexity_ratio.den
                 THEN FALSE
            ELSE TRUE

get_cluster_center(cluster) ==
    IF cluster = <<>> THEN <<0, 0>>
    ELSE <<SumSeq([i \in 1..Len(cluster) |-> cluster[i][1]]) \div Len(cluster),
           SumSeq([i \in 1..Len(cluster) |-> cluster[i][2]]) \div Len(cluster)>>

\* The square of _calculate_distance; the code compares the root with
\* max_hedef_mesafe, the model the square with its square.
calculate_distance_sq(pos1, pos2) ==
    LET dx == pos1[1] - pos2[1]
        dy == pos1[2] - pos2[2]
    IN dx * dx + dy * dy

within_max_hedef_mesafe_exclusive(pos1, pos2) ==
    calculate_distance_sq(pos1, pos2) < max_hedef_mesafe * max_hedef_mesafe

within_max_hedef_mesafe(pos1, pos2) ==
    calculate_distance_sq(pos1, pos2) <= max_hedef_mesafe * max_hedef_mesafe

\* The index in canli_hedefler of the first live target within reach of
\* center, 0 for the code's None.
find_matching_target(canli_hedefler, center) ==
    LET near == {i \in 1..Len(canli_hedefler) :
                     within_max_hedef_mesafe(center, canli_hedefler[i].pozisyon)}
    IN IF near = {} THEN 0 ELSE CHOOSE i \in near : \A j \in near : i <= j

is_near_dead_icon_never(olu_ikonlar, center) == FALSE

is_near_dead_icon(olu_ikonlar, center) ==
    \E i \in 1..Len(olu_ikonlar) :
        within_max_hedef_mesafe(center, olu_ikonlar[i].pozisyon)

is_lost_early(frame_counter, hedef_info) ==
    frame_counter - hedef_info.son_gorulme_ani >= hedef_kayip_suresi

is_lost(frame_counter, hedef_info) ==
    frame_counter - hedef_info.son_gorulme_ani > hedef_kayip_suresi

cleanup_memory(frame_counter, olu_ikonlar) ==
    LET kept(ikon) == frame_counter - ikon.olum_ani <= olu_ikon_suresi
    IN SelectSeq(olu_ikonlar, kept)

\* Step A of update_frame.
shape_valid_clusters(enabled, clusters) ==
    LET plausible(cluster) == is_shape_plausible(enabled, cluster)
    IN SelectSeq(clusters, plausible)

\* Step B of update_frame: the clusters in order, each against the live
\* targets as the clusters before it have left them.
RECURSIVE match_clusters(_, _, _, _, _)
match_clusters(canli_hedefler, frame_counter, clusters, matched, unmatched) ==
    IF clusters = <<>>
    THEN [canli_hedefler |-> canli_hedefler, matched |-> matched, unmatched |-> unmatched]
    ELSE LET cluster == Head(clusters)
             center == get_cluster_center(cluster)
             i == find_matching_target(canli_hedefler, center)
         IN IF i # 0
            THEN match_clusters(
                     [canli_hedefler EXCEPT ![i] = [@ EXCEPT !.pozisyon = center,
                                                            !.son_gorulme_ani = frame_counter,
                                                            !.cluster = cluster]],
                     frame_counter, Tail(clusters), Append(matched, cluster), unmatched)
            ELSE match_clusters(canli_hedefler, frame_counter, Tail(clusters),
                                matched, Append(unmatched, cluster))

\* Step D of update_frame.
RECURSIVE decide_new_targets(_, _, _, _, _, _)
decide_new_targets(canli_hedefler, olu_ikonlar, sonraki_hedef_id, frame_counter, unmatched, valid_targets) ==
    IF unmatched = <<>>
    THEN [canli_hedefler |-> canli_hedefler, sonraki_hedef_id |-> sonraki_hedef_id,
          valid_targets |-> valid_targets]
    ELSE LET cluster == Head(unmatched)
             center == get_cluster_center(cluster)
         IN IF ~is_near_dead_icon(olu_ikonlar, center)
            THEN decide_new_targets(
                     Append(canli_hedefler,
                            [id |-> sonraki_hedef_id, pozisyon |-> center,
                             son_gorulme_ani |-> frame_counter, cluster |-> cluster]),
                     olu_ikonlar, sonraki_hedef_id + 1, frame_counter,
                     Tail(unmatched), Append(valid_targets, cluster))
            ELSE decide_new_targets(canli_hedefler, olu_ikonlar, sonraki_hedef_id,
                                    frame_counter, Tail(unmatched), valid_targets)

\* update_frame: the detector after the call (det), the list it returns
\* (valid_targets) and what its steps did.
update_frame(d, clusters) ==
    LET frame_counter == d.frame_counter + 1
        shape_valid == shape_valid_clusters(d.enabled, clusters)
        b == match_clusters(d.canli_hedefler, frame_counter, shape_valid, <<>>, <<>>)
        lost(hedef_info) == is_lost(frame_counter, hedef_info)
        kept(hedef_info) == ~is_lost(frame_counter, hedef_info)
        kayip_hedefler == SelectSeq(b.canli_hedefler, lost)
        ikonlar == d.olu_ikonlar
                   \o [i \in 1..Len(kayip_hedefler) |->
                          [pozisyon |-> kayip_hedefler[i].pozisyon,
                           olum_ani |-> frame_counter]]
        dd == decide_new_targets(SelectSeq(b.canli_hedefler, kept), ikonlar,
                                 d.sonraki_hedef_id, frame_counter, b.unmatched, <<>>)
        valid_targets == dd.valid_targets
                         \o [i \in 1..Len(dd.canli_hedefler) |-> dd.canli_hedefler[i].cluster]
    IN [made |-> TRUE,
        det |-> [enabled |-> d.enabled,
                 frame_counter |-> frame_counter,
                 canli_hedefler |-> dd.canli_hedefler,
                 olu_ikonlar |-> cleanup_memory(frame_counter, ikonlar),
                 sonraki_hedef_id |-> dd.sonraki_hedef_id],
        valid_targets |-> valid_targets,
        clusters |-> clusters,
        shape_valid |-> shape_valid,
        matched |-> b.matched,
        unmatched |-> b.unmatched,
        kayip_hedefler |-> kayip_hedefler,
        ikonlar |-> ikonlar,
        before |-> d]

\* ---------------------------------------------------- the tracked frames
ClusterKinds ==
    {<<>>, <<<<0, 0>>>>, <<<<18, 24>>>>, <<<<20, 0>>>>, <<<<40, 0>>, <<41, 0>>>>}

ClusterLists == UNION {[1..n -> ClusterKinds] : n \in 0..MaxClusters}

\* One call of update_frame.
UpdateFrame ==
    /\ Idle
    /\ detector.frame_counter < MaxFrames
    /\ \E clusters \in ClusterLists :
        LET r == update_frame(detector, clusters)
        IN /\ r.det.sonraki_hedef_id <= MaxTargets + 1
           /\ detector' = r.det
           /\ smoke_call' = [r EXCEPT !.det = TRUE]
    /\ UNCHANGED <<now, rcs_state, rcs_call, obs, tracker, frame_call, SCIPY_AVAILABLE, shape_call, pid, dispatch_call, serial, movement_lock_state, mouse_call, listener, capture, capture_call, gst, gst_call, net, net_call, ndi, ndi_call, mss, mss_call, strafe, strafe_call, monitor, monitor_call, hsv, crop, pull, lst, rdr, req, logs>>

\* The caller goes on to the next frame.
SmokeReturn ==
    /\ smoke_call.made
    /\ smoke_call' = NoCall
    /\ UNCHANGED <<now, rcs_state, rcs_call, obs, tracker, frame_call, detector, SCIPY_AVAILABLE, shape_call, pid, dispatch_call, serial, movement_lock_state, mouse_call, listener, capture, capture_call, gst, gst_call, net, net_call, ndi, ndi_call, mss, mss_call, strafe, strafe_call, monitor, monitor_call, hsv, crop, pull, lst, rdr, req, logs>>

set_enabled(d, enabled) == [d EXCEPT !.enabled = enabled]

SetEnabled ==
    /\ Idle
    /\ \E enabled \in BOOLEAN : detector' = set_enabled(detector, enabled)
    /\ UNCHANGED <<now, rcs_state, rcs_call, obs, tracker, frame_call, smoke_call, SCIPY_AVAILABLE, shape_call, pid, dispatch_call, serial, movement_lock_state, mouse_call, listener, capture, capture_call, gst, gst_call, net, net_call, ndi, ndi_call, mss, mss_call, strafe, strafe_call, monitor, monitor_call, hsv, crop, pull, lst, rdr, req, logs>>

InitSmoke ==
    /\ InitCore
    /\ RestScipy
    /\ RestShape
    /\ RestPid
    /\ RestDispatch
    /\ RestSerial
    /\ RestMovement
    /\ RestMouseCall
    /\ RestListener
    /\ RestCapture
    /\ RestCaptureCall
    /\ RestGst
    /\ RestGstCall
    /\ RestNet
    /\ RestNetCall
    /\ RestNdi
    /\ RestNdiCall
    /\ RestMss
    /\ RestMssCall
    /\ RestStrafe
    /\ RestStrafeCall
    /\ RestMonitor
    /\ RestMonitorCall
    /\ RestHsv
    /\ RestCrop
    /\ RestPull
    /\ RestLst
    /\ RestRdr
    /\ RestReq
    /\ RestLogs

NextSmoke == UpdateFrame \/ SmokeReturn \/ SetEnabled

SpecSmoke == InitSmoke /\ [][NextSmoke]_vars

\* ------------------------------------------------ the long run of frames
\* A run long enough for a dead icon to outlive olu_ikon_suresi: each frame
\* holds no cluster or one cluster at the position (0, 0).
MaxLongFrames == 130

LongRunClusterLists == {<<>>, <<<<<<0, 0>>>>>>}

UpdateFrameLongRun ==
    /\ Idle
    /\ detector.frame_counter < MaxLongFrames
    /\ \E clusters \in LongRunClusterLists :
        LET r == update_frame(detector, clusters)
        IN /\ r.det.sonraki_hedef_id <= MaxTargets + 1
           /\ detector' = r.det
           /\ smoke_call' = [r EXCEPT !.det = TRUE]
    /\ UNCHANGED <<now, rcs_state, rcs_call, obs, tracker, frame_call, SCIPY_AVAILABLE, shape_call, pid, dispatch_call, serial, movement_lock_state, mouse_call, listener, capture, capture_call, gst, gst_call, net, net_call, ndi, ndi_call, mss, mss_call, strafe, strafe_call, monitor, monitor_call, hsv, crop, pull, lst, rdr, req, logs>>

NextLongRun == UpdateFrameLongRun \/ SmokeReturn

SpecLongRun == InitSmoke /\ [][NextLongRun]_vars

\* ------------------------------------------------- the clusters filtered
\* n pixels spread evenly, in row-major order, over a box of width w and
\* height h, from its first cell to its last: the bounding box of the cluster
\* is the box.
Spread(w, h, n) ==
    [k \in 1..n |-> LET cell == ((k - 1) * (w * h - 1)) \div (n - 1)
                    IN <<cell % w, cell \div w>>]

\* n pixels in a staircase along the diagonal: (0,0), (1,0), (1,1), (2,1), ...
Staircase(n) == [k \in 1..n |-> <<k \div 2, (k - 1) \div 2>>]

\* Every pixel of a box of width w and height h.
Block(w, h) == [k \in 1..(w * h) |-> <<(k - 1) % w, (k - 1) \div w>>]

BoxWidths == {1, 2, 4, 7, 8, 10}
BoxHeights == {5, 7, 8, 13, 25, 81}
PixelCounts == {14, 15, 16}

Boxes == {b \in BoxWidths \X BoxHeights : b[1] * b[2] >= 16}

ShapeClusters ==
    {Spread(b[1], b[2], n) : b \in Boxes, n \in PixelCounts}
    \cup {Staircase(n) : n \in PixelCounts}
    \cup {Block(3, 5), Block(2, 7), Block(5, 3), Block(8, 8), <<>>}

\* One call of is_shape_plausible.
IsShapePlausible ==
    /\ ~shape_call.made
    /\ \E enabled \in BOOLEAN, cluster \in ShapeClusters :
           shape_call' = [made |-> TRUE, enabled |-> enabled, cluster |-> cluster,
                          plausible |-> is_shape_plausible(enabled, cluster)]
    /\ UNCHANGED <<now, rcs_state, rcs_call, obs, tracker, frame_call, detector,
                   smoke_call, SCIPY_AVAILABLE, pid, dispatch_call, serial, movement_lock_state, mouse_call, listener, capture, capture_call, gst, gst_call, net, net_call, ndi, ndi_call, mss, mss_call, strafe, strafe_call, monitor, monitor_call, hsv, crop, pull, lst, rdr, req, logs>>

ShapeReturn ==
    /\ shape_call.made
    /\ shape_call' = NoCall
    /\ UNCHANGED <<now, rcs_state, rcs_call, obs, tracker, frame_call, detector,
                   smoke_call, SCIPY_AVAILABLE, pid, dispatch_call, serial, movement_lock_state, mouse_call, listener, capture, capture_call, gst, gst_call, net, net_call, ndi, ndi_call, mss, mss_call, strafe, strafe_call, monitor, monitor_call, hsv, crop, pull, lst, rdr, req, logs>>

\* The build has scipy or has it not.
InitShape ==
    /\ InitCore
    /\ SCIPY_AVAILABLE \in BOOLEAN
    /\ RestShape
    /\ RestPid
    /\ RestDispatch
    /\ RestSerial
    /\ RestMovement
    /\ RestMouseCall
    /\ RestListener
    /\ RestCapture
    /\ RestCaptureCall
    /\ RestGst
    /\ RestGstCall
    /\ RestNet
    /\ RestNetCall
    /\ RestNdi
    /\ RestNdiCall
    /\ RestMss
    /\ RestMssCall
    /\ RestStrafe
    /\ RestStrafeCall
    /\ RestMonitor
    /\ RestMonitorCall
    /\ RestHsv
    /\ RestCrop
    /\ RestPull
    /\ RestLst
    /\ RestRdr
    /\ RestReq
    /\ RestLogs

NextShape == IsShapePlausible \/ ShapeReturn

SpecShape == InitShape /\ [][NextShape]_vars

\* ===================================== mode_dispatcher.py, mode_pid.py
MaxIntegral == 3          \* the PID integral term is followed up to MaxIntegral

Profiles == {"Main", "Sec"}

\* The mode names of the model, as configured.
RawModes == {"PID", "pid controller (risk)", " Bezier ", "normal", "Silent", "aimlock", ""}

\* str(mode or "").strip().lower() on the names of the model.
stripped_lower(mode) ==
    CASE mode = "PID" -> "pid"
      [] mode = "pid controller (risk)" -> "pid controller (risk)"
      [] mode = " Bezier " -> "bezier"
      [] mode = "normal" -> "normal"
      [] mode = "Silent" -> "silent"
      [] OTHER -> mode

normalize_mode(mode) ==
    LET raw == stripped_lower(mode)
    IN CASE raw = "normal" -> "Normal"
         [] raw = "silent" -> "Silent"
         [] raw = "ncaf" -> "NCAF"
         [] raw = "windmouse" -> "WindMouse"
         [] raw = "bezier" -> "Bezier"
         [] raw \in {"pid", "pid controller", "pid controller (risk)",
                     "pid controller ( risk )"} -> "PID"
         [] OTHER -> "Normal"

\* mode_pid.reset -> normal._reset_pid_state: the profile's controller state
\* is cleared.
reset_pid_state(s) == [s EXCEPT !.integral = 0, !.prev_error = 0, !.carried = FALSE]

\* mode_pid.apply -> normal._apply_pid_aim: the controller reads its state
\* and adds the error of this frame to it.
apply_pid_aim(s, dx) == [s EXCEPT !.integral = @ + dx, !.prev_error = dx]

\* dispatch, on the state of the profile it is called for.  The handlers of
\* the other modes leave the PID state alone.
dispatch(s, dx, mode) ==
    LET mode_name == normalize_mode(mode)
        s1 == IF mode_name # "PID" THEN reset_pid_state(s) ELSE s
    IN IF mode_name = "PID" THEN apply_pid_aim(s1, dx) ELSE s1

\* The frame of a profile whose aim attempt runs: dispatch is called with
\* the profile's configured mode.
Dispatch ==
    /\ ~dispatch_call.made
    /\ \E p \in Profiles, dx \in {0, 1} :
        /\ pid[p].integral + dx <= MaxIntegral
        /\ pid' = [pid EXCEPT ![p] = dispatch(pid[p], dx, pid[p].mode)]
        /\ dispatch_call' = [made |-> TRUE, is_sec |-> (p = "Sec"),
                             mode_name |-> normalize_mode(pid[p].mode),
                             before |-> pid[p]]
    /\ UNCHANGED <<now, rcs_state, rcs_call, obs, tracker, frame_call, detector,
                   smoke_call, SCIPY_AVAILABLE, shape_call, serial, movement_lock_state, mouse_call, listener, capture, capture_call, gst, gst_call, net, net_call, ndi, ndi_call, mss, mss_call, strafe, strafe_call, monitor, monitor_call, hsv, crop, pull, lst, rdr, req, logs>>

DispatchReturn ==
    /\ dispatch_call.made
    /\ dispatch_call' = NoCall
    /\ UNCHANGED <<now, rcs_state, rcs_call, obs, tracker, frame_call, detector,
                   smoke_call, SCIPY_AVAILABLE, shape_call, pid, serial, movement_lock_state, mouse_call, listener, capture, capture_call, gst, gst_call, net, net_call, ndi, ndi_call, mss, mss_call, strafe, strafe_call, monitor, monitor_call, hsv, crop, pull, lst, rdr, req, logs>>

\* The settings UI changes the aim mode of a profile.  State accumulated
\* under PID is from then on state from before a switch away from PID.
SetAimMode ==
    /\ ~dispatch_call.made
    /\ \E p \in Profiles, mode \in RawModes :
        pid' = [pid EXCEPT ![p] =
                   [@ EXCEPT !.mode = mode,
                             !.carried = \/ @
                                         \/ /\ normalize_mode(pid[p].mode) = "PID"
                                            /\ normalize_mode(mode) # "PID"
                                            /\ (pid[p].integral # 0 \/ pid[p].prev_error # 0)]]
    /\ UNCHANGED <<now, rcs_state, rcs_call, obs, tracker, frame_call, detector,
                   smoke_call, SCIPY_AVAILABLE, shape_call, dispatch_call, serial, movement_lock_state, mouse_call, listener, capture, capture_call, gst, gst_call, net, net_call, ndi, ndi_call, mss, mss_call, strafe, strafe_call, monitor, monitor_call, hsv, crop, pull, lst, rdr, req, logs>>

InitDispatch ==
    /\ InitCore
    /\ RestScipy
    /\ RestShape
    /\ RestPid
    /\ RestDispatch
    /\ RestSerial
    /\ RestMovement
    /\ RestMouseCall
    /\ RestListener
    /\ RestCapture
    /\ RestCaptureCall
    /\ RestGst
    /\ RestGstCall
    /\ RestNet
    /\ RestNetCall
    /\ RestNdi
    /\ RestNdiCall
    /\ RestMss
    /\ RestMssCall
    /\ RestStrafe
    /\ RestStrafeCall
    /\ RestMonitor
    /\ RestMonitorCall
    /\ RestHsv
    /\ RestCrop
    /\ RestPull
    /\ RestLst
    /\ RestRdr
    /\ RestReq
    /\ RestLogs

NextDispatch == Dispatch \/ DispatchReturn \/ SetAimMode

SpecDispatch == InitDispatch /\ [][NextDispatch]_vars

\* ===================================================== utils/mouse.py
\* Button locks.  serial.device_buttons is the set of buttons the device
\* holds locked: km.lock_m*(1) adds a button, km.lock_m*(0) removes it.

\* _LOCK_CMD_BY_IDX.get(idx) is not None
has_lock_cmd(idx) == idx \in 0..4

\* lock_button_idx -> _send_cmd_no_wait, which sends only while connected.
lock_button_idx(s, idx) ==
    IF ~has_lock_cmd(idx) \/ ~s.is_connected THEN s
    ELSE [s EXCEPT !.device_buttons = @ \cup {idx}]

unlock_button_idx(s, idx) ==
    IF ~has_lock_cmd(idx) \/ ~s.is_connected THEN s
    ELSE [s EXCEPT !.device_buttons = @ \ {idx}]

\* for i in range(5): unlock_button_idx(i)
unlock_all_locks(s) ==
    unlock_button_idx(unlock_button_idx(unlock_button_idx(unlock_button_idx(
        unlock_button_idx(s, 0), 1), 2), 3), 4)

\* mask_manager_tick, lines 543-544: the previous button is unlocked.
unlock_previous(s) ==
    IF s.mask_applied_idx # None THEN unlock_button_idx(s, s.mask_applied_idx) ELSE s

mask_manager_tick(s, selected_idx, aimbot_running) ==
    LET sel == IF selected_idx \in 0..4 THEN selected_idx ELSE None
    IN IF ~s.is_connected THEN [s EXCEPT !.mask_applied_idx = None]
       ELSE IF ~aimbot_running \/ sel = None
       THEN IF s.mask_applied_idx # None
            THEN [unlock_button_idx(s, s.mask_applied_idx) EXCEPT !.mask_applied_idx = None]
            ELSE s
       ELSE IF s.mask_applied_idx # sel
       THEN [lock_button_idx(unlock_previous(s), sel) EXCEPT !.mask_applied_idx = sel]
       ELSE s

\* utils/mouse/__init__.py: the facade hands the tick to the active backend.
facade_mask_manager_tick(active_backend, s, selected_idx, aimbot_running) ==
    IF active_backend \in {"MakV2", "Serial"}
    THEN mask_manager_tick(s, selected_idx, aimbot_running)
    ELSE s

\* lock_movement_x / lock_movement_y on the pair (module state, lock state):
\* the command is sent, and the flag written, only when the flag differs.
lock_movement_x(sm, lock) ==
    IF ~sm.s.is_connected \/ sm.m.lock_x = lock THEN sm
    ELSE [s |-> [sm.s EXCEPT !.device_mx = lock], m |-> [sm.m EXCEPT !.lock_x = lock]]

lock_movement_y(sm, lock) ==
    IF ~sm.s.is_connected \/ sm.m.lock_y = lock THEN sm
    ELSE [s |-> [sm.s EXCEPT !.device_my = lock], m |-> [sm.m EXCEPT !.lock_y = lock]]

\* Mouse.cleanup
cleanup(s, m) ==
    LET s1 == [unlock_all_locks(s) EXCEPT !.mask_applied_idx = None]
        m1 == [m EXCEPT !.lock_x = FALSE, !.lock_y = FALSE,
                        !.main_aimbot_locked = FALSE, !.sec_aimbot_locked = FALSE]
        sm == lock_movement_y(lock_movement_x([s |-> s1, m |-> m1], FALSE), FALSE)
    IN [s |-> [sm.s EXCEPT !.is_connected = FALSE], m |-> sm.m]

\* ------------------------------------------------------ listener thread
\* bool(v & (1 << i))
bit(v, i) == (v \div (2 ^ i)) % 2 = 1

\* listen_makcu before its loop, and after it: a clean state.
clean_listener_state(l) ==
    [l EXCEPT !.last_value = 0, !.button_states = [i \in 0..4 |-> FALSE]]

\* _start_listener_thread: a thread is started unless _listener_thread
\* refers to a live one.
start_listener_thread(l) ==
    IF ~l.has_ref \/ ~l.alive
    THEN [clean_listener_state(l) EXCEPT !.alive = TRUE, !.has_ref = TRUE]
    ELSE l

\* v in (0x0A, 0x0D) or v > 31
is_ignored_byte(v) == v \in {10, 13} \/ v > 31

\* One pass of the listener loop with the byte v read.
listen_byte(l, v) ==
    IF is_ignored_byte(v) THEN l
    ELSE LET changed == {i \in 0..4 : bit(l.last_value, i) # bit(v, i)}
         IN IF changed # {}
            THEN [l EXCEPT !.button_states = [i \in 0..4 |->
                                                 IF i \in changed THEN bit(v, i) ELSE @[i]],
                           !.last_value = v]
            ELSE l

\* connect_to_makcu: a device answers ("connected"), no port or no answer
\* (is_connected is left as it was), or every attempt raises ("raised":
\* the port is closed and is_connected cleared).
ConnectOutcomes == {"connected", "no_answer", "raised"}

connect_to_makcu(s, outcome) ==
    CASE outcome = "connected" -> [s EXCEPT !.is_connected = TRUE]
      [] outcome = "raised" -> [s EXCEPT !.is_connected = FALSE]
      [] OTHER -> s

SelectedIdxs == {None} \cup (0..5)

MouseIdle == ~mouse_call.made

MaskManagerTick ==
    /\ MouseIdle
    /\ \E selected_idx \in SelectedIdxs, aimbot_running \in BOOLEAN :
        /\ serial' = facade_mask_manager_tick("Serial", serial, selected_idx, aimbot_running)
        /\ mouse_call' = [made |-> TRUE, op |-> "mask_manager_tick",
                          selected_idx |-> selected_idx,
                          aimbot_running |-> aimbot_running, before |-> serial]
    /\ UNCHANGED <<now, rcs_state, rcs_call, obs, tracker, frame_call, detector,
                   smoke_call, SCIPY_AVAILABLE, shape_call, pid, dispatch_call,
                   movement_lock_state, listener, capture, capture_call, gst, gst_call, net, net_call, ndi, ndi_call, mss, mss_call, strafe, strafe_call, monitor, monitor_call, hsv, crop, pull, lst, rdr, req, logs>>

ConnectToMakcu ==
    /\ MouseIdle
    /\ \E outcome \in ConnectOutcomes :
        /\ serial' = connect_to_makcu(serial, outcome)
        /\ listener' = IF outcome = "connected" THEN start_listener_thread(listener)
                       ELSE listener
    /\ UNCHANGED <<now, rcs_state, rcs_call, obs, tracker, frame_call, detector,
                   smoke_call, SCIPY_AVAILABLE, shape_call, pid, dispatch_call,
                   movement_lock_state, mouse_call, capture, capture_call, gst, gst_call, net, net_call, ndi, ndi_call, mss, mss_call, strafe, strafe_call, monitor, monitor_call, hsv, crop, pull, lst, rdr, req, logs>>

Cleanup ==
    /\ MouseIdle
    /\ serial' = cleanup(serial, movement_lock_state).s
    /\ movement_lock_state' = cleanup(serial, movement_lock_state).m
    /\ listener' = [listener EXCEPT !.has_ref = FALSE]
    /\ UNCHANGED <<now, rcs_state, rcs_call, obs, tracker, frame_call, detector,
                   smoke_call, SCIPY_AVAILABLE, shape_call, pid, dispatch_call,
                   mouse_call, capture, capture_call, gst, gst_call, net, net_call, ndi, ndi_call, mss, mss_call, strafe, strafe_call, monitor, monitor_call, hsv, crop, pull, lst, rdr, req, logs>>

MouseReturn ==
    /\ mouse_call.made
    /\ mouse_call' = NoCall
    /\ UNCHANGED <<now, rcs_state, rcs_call, obs, tracker, frame_call, detector,
                   smoke_call, SCIPY_AVAILABLE, shape_call, pid, dispatch_call,
                   serial, movement_lock_state, listener, capture, capture_call, gst, gst_call, net, net_call, ndi, ndi_call, mss, mss_call, strafe, strafe_call, monitor, monitor_call, hsv, crop, pull, lst, rdr, req, logs>>

InitMask ==
    /\ InitCore
    /\ RestScipy
    /\ RestShape
    /\ RestPid
    /\ RestDispatch
    /\ RestSerial
    /\ RestMovement
    /\ RestMouseCall
    /\ RestListener
    /\ RestCapture
    /\ RestCaptureCall
    /\ RestGst
    /\ RestGstCall
    /\ RestNet
    /\ RestNetCall
    /\ RestNdi
    /\ RestNdiCall
    /\ RestMss
    /\ RestMssCall
    /\ RestStrafe
    /\ RestStrafeCall
    /\ RestMonitor
    /\ RestMonitorCall
    /\ RestHsv
    /\ RestCrop
    /\ RestPull
    /\ RestLst
    /\ RestRdr
    /\ RestReq
    /\ RestLogs

NextMask == MaskManagerTick \/ ConnectToMakcu \/ Cleanup \/ MouseReturn

SpecMask == InitMask /\ [][NextMask]_vars

\* ------------------------------------------------ movement lock manager
\* One step of the clock is 0.05 s: _MOVEMENT_LOCK_TIMEOUT = 0.1 s is 2 steps.
MOVEMENT_LOCK_TIMEOUT == 2

\* update_movement_lock on the lock state; acquired is whether the state
\* lock was obtained within its 0.01 s timeout.
update_movement_lock(s, m, lock_x, lock_y, is_main, current_time, acquired) ==
    IF ~s.is_connected \/ ~acquired THEN m
    ELSE IF is_main
    THEN [m EXCEPT !.main_aimbot_locked = lock_x \/ lock_y,
                   !.last_main_move_time = IF lock_x \/ lock_y THEN current_time ELSE @]
    ELSE [m EXCEPT !.sec_aimbot_locked = lock_x \/ lock_y,
                   !.last_sec_move_time = IF lock_x \/ lock_y THEN current_time ELSE @]

\* current_time - last_move_time > _MOVEMENT_LOCK_TIMEOUT
expired(current_time, last_move_time) ==
    current_time - last_move_time > MOVEMENT_LOCK_TIMEOUT

\* The flags after the two timeout tests of tick_movement_lock_manager.
expire_flags(m, current_time) ==
    [m EXCEPT !.main_aimbot_locked = @ /\ ~expired(current_time, m.last_main_move_time),
              !.sec_aimbot_locked = @ /\ ~expired(current_time, m.last_sec_move_time)]

\* tick_movement_lock_manager on the pair (module state, lock state); cfg is
\* what the tick reads of config.mouse_lock_{main,sec}_{x,y}.
tick_movement_lock_manager(s, m, cfg, current_time, acquired) ==
    IF ~s.is_connected \/ ~acquired THEN [s |-> s, m |-> m]
    ELSE LET m1 == expire_flags(m, current_time)
             should_lock_x == \/ cfg.main_x /\ m1.main_aimbot_locked
                              \/ cfg.sec_x /\ m1.sec_aimbot_locked
             should_lock_y == \/ cfg.main_y /\ m1.main_aimbot_locked
                              \/ cfg.sec_y /\ m1.sec_aimbot_locked
         IN lock_movement_y(lock_movement_x([s |-> s, m |-> m1], should_lock_x),
                            should_lock_y)

LockConfigs == [main_x : BOOLEAN, main_y : BOOLEAN, sec_x : BOOLEAN, sec_y : BOOLEAN]

UpdateMovementLock ==
    /\ MouseIdle
    /\ \E lock_x \in BOOLEAN, lock_y \in BOOLEAN, is_main \in BOOLEAN, acquired \in BOOLEAN :
        movement_lock_state' = update_movement_lock(serial, movement_lock_state,
                                                    lock_x, lock_y, is_main, now, acquired)
    /\ UNCHANGED <<now, rcs_state, rcs_call, obs, tracker, frame_call, detector,
                   smoke_call, SCIPY_AVAILABLE, shape_call, pid, dispatch_call,
                   serial, mouse_call, listener, capture, capture_call, gst, gst_call, net, net_call, ndi, ndi_call, mss, mss_call, strafe, strafe_call, monitor, monitor_call, hsv, crop, pull, lst, rdr, req, logs>>

TickMovementLockManager ==
    /\ MouseIdle
    /\ \E cfg \in LockConfigs, acquired \in BOOLEAN :
        LET r == tick_movement_lock_manager(serial, movement_lock_state, cfg, now, acquired)
        IN /\ serial' = r.s
           /\ movement_lock_state' = r.m
           /\ mouse_call' = [made |-> TRUE, op |-> "tick_movement_lock_manager",
                             cfg |-> cfg, acquired |-> acquired, current_time |-> now,
                             before |-> serial, before_m |-> movement_lock_state]
    /\ UNCHANGED <<now, rcs_state, rcs_call, obs, tracker, frame_call, detector,
                   smoke_call, SCIPY_AVAILABLE, shape_call, pid, dispatch_call, listener, capture, capture_call, gst, gst_call, net, net_call, ndi, ndi_call, mss, mss_call, strafe, strafe_call, monitor, monitor_call, hsv, crop, pull, lst, rdr, req, logs>>

\* time.time() advances between calls.
ClockAdvances ==
    /\ MouseIdle
    /\ now < MaxTime
    /\ now' = now + 1
    /\ UNCHANGED <<rcs_state, rcs_call, obs, tracker, frame_call, detector,
                   smoke_call, SCIPY_AVAILABLE, shape_call, pid, dispatch_call,
                   serial, movement_lock_state, mouse_call, listener, capture, capture_call, gst, gst_call, net, net_call, ndi, ndi_call, mss, mss_call, strafe, strafe_call, monitor, monitor_call, hsv, crop, pull, lst, rdr, req, logs>>

InitMovement ==
    /\ InitCore
    /\ RestScipy
    /\ RestShape
    /\ RestPid
    /\ RestDispatch
    /\ RestSerial
    /\ RestMovement
    /\ RestMouseCall
    /\ RestListener
    /\ RestCapture
    /\ RestCaptureCall
    /\ RestGst
    /\ RestGstCall
    /\ RestNet
    /\ RestNetCall
    /\ RestNdi
    /\ RestNdiCall
    /\ RestMss
    /\ RestMssCall
    /\ RestStrafe
    /\ RestStrafeCall
    /\ RestMonitor
    /\ RestMonitorCall
    /\ RestHsv
    /\ RestCrop
    /\ RestPull
    /\ RestLst
    /\ RestRdr
    /\ RestReq
    /\ RestLogs

NextMovement ==
    \/ UpdateMovementLock
    \/ TickMovementLockManager
    \/ ClockAdvances
    \/ ConnectToMakcu
    \/ Cleanup
    \/ MouseReturn

SpecMovement == InitMovement /\ [][NextMovement]_vars

\* The bytes the listener reads: every mask, and bytes of echoed ASCII.
ListenerBytes == (0..31) \cup {62, 107, 255}

ListenByte ==
    /\ MouseIdle
    /\ listener.alive
    /\ serial.is_connected
    /\ \E v \in ListenerBytes :
        /\ listener' = listen_byte(listener, v)
        /\ mouse_call' = [made |-> TRUE, op |-> "listen_makcu", v |-> v,
                          before_l |-> listener]
    /\ UNCHANGED <<now, rcs_state, rcs_call, obs, tracker, frame_call, detector,
                   smoke_call, SCIPY_AVAILABLE, shape_call, pid, dispatch_call,
                   serial, movement_lock_state, capture, capture_call, gst, gst_call, net, net_call, ndi, ndi_call, mss, mss_call, strafe, strafe_call, monitor, monitor_call, hsv, crop, pull, lst, rdr, req, logs>>

\* The loop ends once is_connected is False.
ListenerExit ==
    /\ MouseIdle
    /\ listener.alive
    /\ ~serial.is_connected
    /\ listener' = [clean_listener_state(listener) EXCEPT !.alive = FALSE]
    /\ UNCHANGED <<now, rcs_state, rcs_call, obs, tracker, frame_call, detector,
                   smoke_call, SCIPY_AVAILABLE, shape_call, pid, dispatch_call,
                   serial, movement_lock_state, mouse_call, capture, capture_call, gst, gst_call, net, net_call, ndi, ndi_call, mss, mss_call, strafe, strafe_call, monitor, monitor_call, hsv, crop, pull, lst, rdr, req, logs>>

InitListener ==
    /\ InitCore
    /\ RestScipy
    /\ RestShape
    /\ RestPid
    /\ RestDispatch
    /\ RestSerial
    /\ RestMovement
    /\ RestMouseCall
    /\ RestListener
    /\ RestCapture
    /\ RestCaptureCall
    /\ RestGst
    /\ RestGstCall
    /\ RestNet
    /\ RestNetCall
    /\ RestNdi
    /\ RestNdiCall
    /\ RestMss
    /\ RestMssCall
    /\ RestStrafe
    /\ RestStrafeCall
    /\ RestMonitor
    /\ RestMonitorCall
    /\ RestHsv
    /\ RestCrop
    /\ RestPull
    /\ RestLst
    /\ RestRdr
    /\ RestReq
    /\ RestLogs

NextListener == ListenByte \/ ListenerExit \/ ConnectToMakcu \/ Cleanup \/ MouseReturn

SpecListener == InitListener /\ [][NextListener]_vars

\* ================================================ capture_service.py
\* capture.ndi: the NDI receiver is connected.  capture.udp: the UDP manager
\* has a connection.  A camera field is "None" or "open" (an object whose
\* device or pipeline is open); mss_capture is "None", "created" (an object
\* that is not connected) or "connected".
CaptureModes == {"NDI", "UDP", "CaptureCard", "CaptureCardGStreamer", "MSS"}

\* CaptureService.disconnect
disconnect(c) ==
    CASE c.mode = "NDI" -> c
      [] c.mode = "UDP" -> [c EXCEPT !.udp = FALSE]
      [] c.mode = "CaptureCard" -> [c EXCEPT !.capture_card_camera = "None"]
      [] c.mode = "CaptureCardGStreamer" -> [c EXCEPT !.capture_card_gstreamer_camera = "None"]
      [] c.mode = "MSS" -> [c EXCEPT !.mss_capture = "None"]
      [] OTHER -> c

\* CaptureService.is_connected
is_connected(c) ==
    CASE c.mode = "NDI" -> c.ndi
      [] c.mode = "UDP" -> c.udp
      [] c.mode = "CaptureCard" -> c.capture_card_camera = "open"
      [] c.mode = "CaptureCardGStreamer" -> c.capture_card_gstreamer_camera = "open"
      [] c.mode = "MSS" -> c.mss_capture = "connected"
      [] OTHER -> FALSE

\* CaptureService.set_mode
set_mode(c, mode) ==
    IF mode \notin CaptureModes THEN c
    ELSE [(IF c.mode # mode THEN disconnect(c) ELSE c) EXCEPT !.mode = mode]

\* connect_ndi: ndi.connect_to_source sets the receiver's source ("ok") or
\* returns an error and leaves the receiver as it was.
connect_ndi(c, outcome) ==
    [c |-> [c EXCEPT !.mode = "NDI", !.ndi = IF outcome = "ok" THEN TRUE ELSE @],
     ok |-> outcome = "ok"]

\* connect_udp
connect_udp(c, outcome) ==
    LET c1 == [c EXCEPT !.mode = "UDP"]
    IN IF ~c.HAS_UDP THEN [c |-> c1, ok |-> FALSE]
       ELSE IF outcome = "ok" THEN [c |-> [c1 EXCEPT !.udp = TRUE], ok |-> TRUE]
       ELSE [c |-> c1, ok |-> FALSE]

\* connect_mss: "raise" is MSSCapture(...) raising, "fail" is connect()
\* returning an error.
connect_mss(c, outcome) ==
    LET c1 == [c EXCEPT !.mode = "MSS"]
    IN IF ~c.HAS_MSS \/ outcome = "raise" THEN [c |-> c1, ok |-> FALSE]
       ELSE IF outcome = "ok" THEN [c |-> [c1 EXCEPT !.mss_capture = "connected"], ok |-> TRUE]
       ELSE [c |-> [c1 EXCEPT !.mss_capture = "created"], ok |-> FALSE]

\* One pass of the recovery loop of connect_capture_card: the camera is
\* stopped and dropped, then created anew; try is "raise" (creation raises),
\* "noframe" or "frame" (what wait_for_first_frame says).
retry_profile(c, try) ==
    [c EXCEPT !.capture_card_gstreamer_camera = IF try = "raise" THEN "None" ELSE "open"]

\* connect_capture_card.  o.first, o.retry1, o.retry2 are "raise", "noframe"
\* or "frame"; o.auto_fallback is config.capture_gst_auto_fallback_opencv;
\* o.opencv is whether create_capture_card_camera returns a camera.
connect_capture_card(c, o) ==
    IF c.mode = "CaptureCardGStreamer"
    THEN IF ~c.HAS_GSTREAMER \/ o.first = "raise" THEN [c |-> c, ok |-> FALSE]
         ELSE LET c1 == [c EXCEPT !.capture_card_gstreamer_camera = "open"]
              IN IF o.first = "frame" THEN [c |-> c1, ok |-> TRUE]
                 ELSE IF o.auto_fallback /\ c.HAS_CAPTURECARD
                 THEN LET c2 == [c1 EXCEPT !.capture_card_gstreamer_camera = "None"]
                      IN IF o.opencv
                         THEN [c |-> [c2 EXCEPT !.capture_card_camera = "open",
                                                !.mode = "CaptureCard"],
                               ok |-> TRUE]
                         ELSE [c |-> c2, ok |-> FALSE]
                 ELSE LET c2 == retry_profile(c1, o.retry1)
                      IN IF o.retry1 = "frame" THEN [c |-> c2, ok |-> TRUE]
                         ELSE [c |-> retry_profile(c2, o.retry2), ok |-> TRUE]
    ELSE LET c1 == [c EXCEPT !.mode = "CaptureCard"]
         IN IF ~c.HAS_CAPTURECARD \/ ~o.opencv THEN [c |-> c1, ok |-> FALSE]
            ELSE [c |-> [c1 EXCEPT !.capture_card_camera = "open"], ok |-> TRUE]

CreateOutcomes == {"raise", "noframe", "frame"}

CardOutcomes ==
    [first : CreateOutcomes, retry1 : CreateOutcomes, retry2 : CreateOutcomes,
     auto_fallback : BOOLEAN, opencv : BOOLEAN]

CaptureIdle == ~capture_call.made

SetMode ==
    /\ CaptureIdle
    /\ \E mode \in CaptureModes \cup {"Auto"} :
        /\ capture' = set_mode(capture, mode)
        /\ capture_call' = [made |-> TRUE, op |-> "set_mode", ok |-> TRUE,
                            before |-> capture]
    /\ UNCHANGED <<now, rcs_state, rcs_call, obs, tracker, frame_call, detector,
                   smoke_call, SCIPY_AVAILABLE, shape_call, pid, dispatch_call,
                   serial, movement_lock_state, mouse_call, listener, gst, gst_call, net, net_call, ndi, ndi_call, mss, mss_call, strafe, strafe_call, monitor, monitor_call, hsv, crop, pull, lst, rdr, req, logs>>

ConnectNdi ==
    /\ CaptureIdle
    /\ \E outcome \in {"ok", "fail"} :
        /\ capture' = connect_ndi(capture, outcome).c
        /\ capture_call' = [made |-> TRUE, op |-> "connect_ndi",
                            ok |-> connect_ndi(capture, outcome).ok, before |-> capture]
    /\ UNCHANGED <<now, rcs_state, rcs_call, obs, tracker, frame_call, detector,
                   smoke_call, SCIPY_AVAILABLE, shape_call, pid, dispatch_call,
                   serial, movement_lock_state, mouse_call, listener, gst, gst_call, net, net_call, ndi, ndi_call, mss, mss_call, strafe, strafe_call, monitor, monitor_call, hsv, crop, pull, lst, rdr, req, logs>>

ConnectUdp ==
    /\ CaptureIdle
    /\ \E outcome \in {"ok", "fail"} :
        /\ capture' = connect_udp(capture, outcome).c
        /\ capture_call' = [made |-> TRUE, op |-> "connect_udp",
                            ok |-> connect_udp(capture, outcome).ok, before |-> capture]
    /\ UNCHANGED <<now, rcs_state, rcs_call, obs, tracker, frame_call, detector,
                   smoke_call, SCIPY_AVAILABLE, shape_call, pid, dispatch_call,
                   serial, movement_lock_state, mouse_call, listener, gst, gst_call, net, net_call, ndi, ndi_call, mss, mss_call, strafe, strafe_call, monitor, monitor_call, hsv, crop, pull, lst, rdr, req, logs>>

ConnectMss ==
    /\ CaptureIdle
    /\ \E outcome \in {"ok", "fail", "raise"} :
        /\ capture' = connect_mss(capture, outcome).c
        /\ capture_call' = [made |-> TRUE, op |-> "connect_mss",
                            ok |-> connect_mss(capture, outcome).ok, before |-> capture]
    /\ UNCHANGED <<now, rcs_state, rcs_call, obs, tracker, frame_call, detector,
                   smoke_call, SCIPY_AVAILABLE, shape_call, pid, dispatch_call,
                   serial, movement_lock_state, mouse_call, listener, gst, gst_call, net, net_call, ndi, ndi_call, mss, mss_call, strafe, strafe_call, monitor, monitor_call, hsv, crop, pull, lst, rdr, req, logs>>

ConnectCaptureCard ==
    /\ CaptureIdle
    /\ \E o \in CardOutcomes :
        /\ capture' = connect_capture_card(capture, o).c
        /\ capture_call' = [made |-> TRUE, op |-> "connect_capture_card",
                            ok |-> connect_capture_card(capture, o).ok, before |-> capture]
    /\ UNCHANGED <<now, rcs_state, rcs_call, obs, tracker, frame_call, detector,
                   smoke_call, SCIPY_AVAILABLE, shape_call, pid, dispatch_call,
                   serial, movement_lock_state, mouse_call, listener, gst, gst_call, net, net_call, ndi, ndi_call, mss, mss_call, strafe, strafe_call, monitor, monitor_call, hsv, crop, pull, lst, rdr, req, logs>>

Disconnect ==
    /\ CaptureIdle
    /\ capture' = disconnect(capture)
    /\ capture_call' = [made |-> TRUE, op |-> "disconnect", ok |-> TRUE,
                        before |-> capture]
    /\ UNCHANGED <<now, rcs_state, rcs_call, obs, tracker, frame_call, detector,
                   smoke_call, SCIPY_AVAILABLE, shape_call, pid, dispatch_call,
                   serial, movement_lock_state, mouse_call, listener, gst, gst_call, net, net_call, ndi, ndi_call, mss, mss_call, strafe, strafe_call, monitor, monitor_call, hsv, crop, pull, lst, rdr, req, logs>>

CaptureReturn ==
    /\ capture_call.made
    /\ capture_call' = NoCall
    /\ UNCHANGED <<now, rcs_state, rcs_call, obs, tracker, frame_call, detector,
                   smoke_call, SCIPY_AVAILABLE, shape_call, pid, dispatch_call,
                   serial, movement_lock_state, mouse_call, listener, capture, gst, gst_call, net, net_call, ndi, ndi_call, mss, mss_call, strafe, strafe_call, monitor, monitor_call, hsv, crop, pull, lst, rdr, req, logs>>

\* A new CaptureService; which backend modules were importable depends on
\* the installation.
InitCapture ==
    /\ InitCore
    /\ RestScipy
    /\ RestShape
    /\ RestPid
    /\ RestDispatch
    /\ RestSerial
    /\ RestMovement
    /\ RestMouseCall
    /\ RestListener
    /\ \E u \in BOOLEAN, cc \in BOOLEAN, m \in BOOLEAN, g \in BOOLEAN :
        capture = [mode |-> "NDI", ndi |-> FALSE, udp |-> FALSE,
                   capture_card_camera |-> "None",
                   capture_card_gstreamer_camera |-> "None", mss_capture |-> "None",
                   HAS_UDP |-> u, HAS_CAPTURECARD |-> cc, HAS_MSS |-> m,
                   HAS_GSTREAMER |-> g]
    /\ RestCaptureCall
    /\ RestGst
    /\ RestGstCall
    /\ RestNet
    /\ RestNetCall
    /\ RestNdi
    /\ RestNdiCall
    /\ RestMss
    /\ RestMssCall
    /\ RestStrafe
    /\ RestStrafeCall
    /\ RestMonitor
    /\ RestMonitorCall
    /\ RestHsv
    /\ RestCrop
    /\ RestPull
    /\ RestLst
    /\ RestRdr
    /\ RestReq
    /\ RestLogs

NextCapture ==
    \/ SetMode
    \/ ConnectNdi
    \/ ConnectUdp
    \/ ConnectMss
    \/ ConnectCaptureCard
    \/ Disconnect
    \/ CaptureReturn

SpecCapture == InitCapture /\ [][NextCapture]_vars

\* ============================================= CaptureCardGStreamer.py
\* A handle is "None" or "handle".  The GStreamer state of a pipeline is
\* "NULL" or "PLAYING".  An unref is recorded as [what, state, null_ok]:
\* the handle, the state its pipeline was in, and whether
\* _set_pipeline_to_null had confirmed NULL for it.
MaxCandidates == 2        \* pipeline candidates tried by _create_pipeline

\* _set_pipeline_to_null: the request raises ("raise"), the pipeline reaches
\* NULL before the deadline ("null"), or it does not ("timeout").
NullOutcomes == {"null", "timeout", "raise"}

set_pipeline_to_null(pipeline, state, outcome) ==
    IF pipeline = "None" THEN [ok |-> TRUE, state |-> state]
    ELSE IF outcome = "null" THEN [ok |-> TRUE, state |-> "NULL"]
    ELSE [ok |-> FALSE, state |-> state]

\* The two unrefs, of the handles that are there.
unref_handles(pipeline, appsink, state, null_ok) ==
    (IF appsink # "None"
     THEN {[what |-> "appsink", state |-> state, null_ok |-> null_ok]} ELSE {})
    \cup
    (IF pipeline # "None"
     THEN {[what |-> "pipeline", state |-> state, null_ok |-> null_ok]} ELSE {})

\* Mutant: the handles are unreferenced whatever _set_pipeline_to_null said.
skip_unref_never(null_ok) == FALSE

\* stop: skip_unref = not null_ok; _cleanup_candidate_pipeline: if not
\* null_ok: return.
skip_unref(null_ok) == ~null_ok

\* _cleanup_candidate_pipeline: the unrefs it makes.
cleanup_candidate_pipeline(pipeline, appsink, state, outcome) ==
    LET r == set_pipeline_to_null(pipeline, state, outcome)
    IN IF skip_unref(r.ok) THEN {}
       ELSE unref_handles(pipeline, appsink, r.state, r.ok)

\* One candidate of _create_pipeline.  try.result is what happens to it:
\* "parse" (gst_parse_launch fails), "sink" (no appsink), "play" (PLAYING is
\* refused), "bus" (a bus error), "sample" (the strict probe gets no sample)
\* or "ok"; try.null is the outcome of the cleanup's NULL transition.
CandidateResults == {"parse", "sink", "play", "bus", "sample", "ok"}

candidate_unrefs(try) ==
    CASE try.result = "parse" -> {}
      [] try.result = "sink" -> {[what |-> "pipeline", state |-> "NULL", null_ok |-> TRUE]}
      [] try.result = "play" -> cleanup_candidate_pipeline("handle", "handle", "NULL", try.null)
      [] try.result \in {"bus", "sample"} ->
             cleanup_candidate_pipeline("handle", "handle", "PLAYING", try.null)
      [] OTHER -> {}

\* _create_pipeline over the candidates tries[1..]: the instance after it
\* (pipeline and appsink set by the first candidate that works) and the
\* unrefs made on the way; raised when no candidate works.
RECURSIVE create_pipeline(_, _)
create_pipeline(tries, unrefs) ==
    IF tries = <<>> THEN [raised |-> TRUE, unrefs |-> unrefs]
    ELSE IF Head(tries).result = "ok" THEN [raised |-> FALSE, unrefs |-> unrefs]
    ELSE create_pipeline(Tail(tries), unrefs \cup candidate_unrefs(Head(tries)))

\* _release_pipeline_handles
release_pipeline_handles(g, skip, null_ok) ==
    [g |-> [g EXCEPT !.pipeline = "None", !.appsink = "None"],
     unrefs |-> IF skip THEN {} ELSE unref_handles(g.pipeline, g.appsink, g.state, null_ok)]

\* CaptureCardGStreamer.stop
stop(g, outcome) ==
    IF ~g.running THEN [g |-> g, unrefs |-> {}, null_ok |-> TRUE]
    ELSE LET r == set_pipeline_to_null(g.pipeline, g.state, outcome)
             skip == IF g.pipeline # "None" THEN skip_unref(r.ok) ELSE FALSE
             g1 == [g EXCEPT !.running = FALSE, !.state = r.state]
             rel == release_pipeline_handles(g1, skip, r.ok)
         IN [g |-> rel.g, unrefs |-> rel.unrefs, null_ok |-> r.ok]

CandidateTries == [result : CandidateResults, null : NullOutcomes]

\* CaptureCardGStreamer(config): __init__ with _create_pipeline.
GstCreate ==
    /\ ~gst_call.made
    /\ ~gst.exists
    /\ \E tries \in [1..MaxCandidates -> CandidateTries] :
        LET r == create_pipeline(tries, {})
        IN /\ gst' = IF r.raised THEN gst
                     ELSE [exists |-> TRUE, running |-> TRUE, pipeline |-> "handle",
                           appsink |-> "handle", state |-> "PLAYING"]
           /\ gst_call' = [made |-> TRUE, op |-> "create", unrefs |-> r.unrefs,
                           raised |-> r.raised, tries |-> tries, before |-> gst]
    /\ UNCHANGED <<now, rcs_state, rcs_call, obs, tracker, frame_call, detector,
                   smoke_call, SCIPY_AVAILABLE, shape_call, pid, dispatch_call,
                   serial, movement_lock_state, mouse_call, listener, capture,
                   capture_call, net, net_call, ndi, ndi_call, mss, mss_call, strafe, strafe_call, monitor, monitor_call, hsv, crop, pull, lst, rdr, req, logs>>

GstStop ==
    /\ ~gst_call.made
    /\ gst.exists
    /\ \E outcome \in NullOutcomes :
        LET r == stop(gst, outcome)
        IN /\ gst' = r.g
           /\ gst_call' = [made |-> TRUE, op |-> "stop", unrefs |-> r.unrefs,
                           raised |-> FALSE, null_ok |-> r.null_ok, before |-> gst]
    /\ UNCHANGED <<now, rcs_state, rcs_call, obs, tracker, frame_call, detector,
                   smoke_call, SCIPY_AVAILABLE, shape_call, pid, dispatch_call,
                   serial, movement_lock_state, mouse_call, listener, capture,
                   capture_call, net, net_call, ndi, ndi_call, mss, mss_call, strafe, strafe_call, monitor, monitor_call, hsv, crop, pull, lst, rdr, req, logs>>

\* The service drops a stopped camera; the next connect creates a new one.
GstDrop ==
    /\ ~gst_call.made
    /\ gst.exists /\ ~gst.running
    /\ gst' = [gst EXCEPT !.exists = FALSE]
    /\ UNCHANGED <<now, rcs_state, rcs_call, obs, tracker, frame_call, detector,
                   smoke_call, SCIPY_AVAILABLE, shape_call, pid, dispatch_call,
                   serial, movement_lock_state, mouse_call, listener, capture,
                   capture_call, gst_call, net, net_call, ndi, ndi_call, mss, mss_call, strafe, strafe_call, monitor, monitor_call, hsv, crop, pull, lst, rdr, req, logs>>

GstReturn ==
    /\ gst_call.made
    /\ gst_call' = NoCall
    /\ UNCHANGED <<now, rcs_state, rcs_call, obs, tracker, frame_call, detector,
                   smoke_call, SCIPY_AVAILABLE, shape_call, pid, dispatch_call,
                   serial, movement_lock_state, mouse_call, listener, capture,
                   capture_call, gst, net, net_call, ndi, ndi_call, mss, mss_call, strafe, strafe_call, monitor, monitor_call, hsv, crop, pull, lst, rdr, req, logs>>

InitGst ==
    /\ InitCore
    /\ RestScipy
    /\ RestShape
    /\ RestPid
    /\ RestDispatch
    /\ RestSerial
    /\ RestMovement
    /\ RestMouseCall
    /\ RestListener
    /\ RestCapture
    /\ RestCaptureCall
    /\ RestGst
    /\ RestGstCall
    /\ RestNet
    /\ RestNetCall
    /\ RestNdi
    /\ RestNdiCall
    /\ RestMss
    /\ RestMssCall
    /\ RestStrafe
    /\ RestStrafeCall
    /\ RestMonitor
    /\ RestMonitorCall
    /\ RestHsv
    /\ RestCrop
    /\ RestPull
    /\ RestLst
    /\ RestRdr
    /\ RestReq
    /\ RestLogs

NextGst == GstCreate \/ GstStop \/ GstDrop \/ GstReturn

SpecGst == InitGst /\ [][NextGst]_vars

\* ====================================================== mouse/NetAPI.py
\* Messages are strings; what an exception says (str(e)) is any string, the
\* empty one included.
ExceptionTexts == {"", "boom"}

\* _load_module: the module is loaded already or a candidate loads ("ok"),
\* no dll is found ("missing"), a candidate raises while loading ("raise"),
\* or no candidate has a usable module spec ("nospec").
LoadOutcomes == {"ok", "missing", "raise", "nospec"}

load_module(n, load) ==
    IF n.kmnet_module THEN [n |-> n, module |-> TRUE]
    ELSE CASE load.outcome = "ok" -> [n |-> [n EXCEPT !.kmnet_module = TRUE], module |-> TRUE]
           [] load.outcome = "missing" ->
                  [n |-> [n EXCEPT !.last_connect_error = "kmNet dll not found in: dir"],
                   module |-> FALSE]
           [] load.outcome = "raise" ->
                  [n |-> [n EXCEPT !.last_connect_error = "Failed loading kmNet.pyd: "],
                   module |-> FALSE]
           [] OTHER -> [n |-> n, module |-> FALSE]

\* _preflight_init with what the child does: it is still alive after the
\* timeout ("timeout"), it ends without a result ("noresult"), it reports
\* ("error", str(e)), or ("ok", ret).  The result is (ok, message,
\* terminated): terminated says that proc.terminate() was called.
ProbeOutcomes ==
    {[kind |-> "timeout", text |-> "", ret |-> 0], [kind |-> "noresult", text |-> "", ret |-> 0],
     [kind |-> "ok", text |-> "", ret |-> 0], [kind |-> "ok", text |-> "", ret |-> 1]}
    \cup {[kind |-> "error", text |-> t, ret |-> 0] : t \in ExceptionTexts}

preflight_init(probe) ==
    CASE probe.kind = "timeout" ->
             [ok |-> FALSE, error |-> "kmNet.init timeout (3.0s)", terminated |-> TRUE]
      [] probe.kind = "noresult" ->
             [ok |-> FALSE, error |-> "kmNet.init probe returned no result", terminated |-> FALSE]
      [] probe.kind = "error" -> [ok |-> FALSE, error |-> probe.text, terminated |-> FALSE]
      [] probe.ret # 0 ->
             [ok |-> FALSE, error |-> "kmNet.init probe failed (code=1)", terminated |-> FALSE]
      [] OTHER -> [ok |-> TRUE, error |-> "", terminated |-> FALSE]

\* module.init in the host process: its return code, or it raises.
HostOutcomes == {"zero", "code", "raise"}

\* NetAPI.connect: the session after it, what it returned, whether the
\* child was terminated and whether init ran in the host process.
net_connect(n, load, has_init, probe, host) ==
    LET n0 == [n EXCEPT !.last_connect_error = "", !.is_connected = FALSE]
        l == load_module(n0, load)
        fail(n1, text, term, hosted) ==
            [n |-> [n1 EXCEPT !.last_connect_error = text], ret |-> FALSE,
             terminated |-> term, host_init |-> hosted, probed |-> "none"]
    IN IF ~l.module
       THEN fail(l.n, IF l.n.last_connect_error = "" THEN "kmNet module load failed"
                      ELSE l.n.last_connect_error, FALSE, FALSE)
       ELSE IF ~has_init THEN fail(l.n, "kmNet.init not found", FALSE, FALSE)
       ELSE LET p == preflight_init(probe)
            IN IF ~p.ok
               THEN [fail(l.n, p.error, p.terminated, FALSE) EXCEPT !.probed = probe.kind]
               ELSE CASE host = "code" ->
                             [fail(l.n, "kmNet.init failed (code=1)", FALSE, TRUE)
                                 EXCEPT !.probed = "ok"]
                      [] host = "raise" ->
                             [fail(l.n, "kmNet connection error: ", FALSE, TRUE)
                                 EXCEPT !.probed = "ok"]
                      [] OTHER -> [n |-> [l.n EXCEPT !.is_connected = TRUE], ret |-> TRUE,
                                   terminated |-> FALSE, host_init |-> TRUE, probed |-> "ok"]

NetConnect ==
    /\ ~net_call.made
    /\ \E outcome \in LoadOutcomes, has_init \in BOOLEAN, probe \in ProbeOutcomes,
          host \in HostOutcomes :
        LET r == net_connect(net, [outcome |-> outcome], has_init, probe, host)
        IN /\ net' = r.n
           /\ net_call' = [made |-> TRUE, ret |-> r.ret, terminated |-> r.terminated,
                           host_init |-> r.host_init, probed |-> r.probed,
                           probe |-> probe, host |-> host, before |-> net]
    /\ UNCHANGED <<now, rcs_state, rcs_call, obs, tracker, frame_call, detector,
                   smoke_call, SCIPY_AVAILABLE, shape_call, pid, dispatch_call,
                   serial, movement_lock_state, mouse_call, listener, capture,
                   capture_call, gst, gst_call, ndi, ndi_call, mss, mss_call, strafe, strafe_call, monitor, monitor_call, hsv, crop, pull, lst, rdr, req, logs>>

NetReturn ==
    /\ net_call.made
    /\ net_call' = NoCall
    /\ UNCHANGED <<now, rcs_state, rcs_call, obs, tracker, frame_call, detector,
                   smoke_call, SCIPY_AVAILABLE, shape_call, pid, dispatch_call,
                   serial, movement_lock_state, mouse_call, listener, capture,
                   capture_call, gst, gst_call, net, ndi, ndi_call, mss, mss_call, strafe, strafe_call, monitor, monitor_call, hsv, crop, pull, lst, rdr, req, logs>>

InitNet ==
    /\ InitCore
    /\ RestScipy
    /\ RestShape
    /\ RestPid
    /\ RestDispatch
    /\ RestSerial
    /\ RestMovement
    /\ RestMouseCall
    /\ RestListener
    /\ RestCapture
    /\ RestCaptureCall
    /\ RestGst
    /\ RestGstCall
    /\ RestNet
    /\ RestNetCall
    /\ RestNdi
    /\ RestNdiCall
    /\ RestMss
    /\ RestMssCall
    /\ RestStrafe
    /\ RestStrafeCall
    /\ RestMonitor
    /\ RestMonitorCall
    /\ RestHsv
    /\ RestCrop
    /\ RestPull
    /\ RestLst
    /\ RestRdr
    /\ RestReq
    /\ RestLogs

NextNet == NetConnect \/ NetReturn

SpecNet == InitNet /\ [][NextNet]_vars

\* ============================================================== ndi.py
\* A source is a name; "None" stands for None.
SourceNames == {"A", "B", "C"}

\* What the finder lists.
SourceLists == {<<>>, <<"A">>, <<"B">>, <<"A", "B">>, <<"B", "A">>}

SeqRange(seq) == {seq[i] : i \in DOMAIN seq}

\* NDIManager.refresh_sources
refresh_sources(n, names) ==
    IF names # <<>>
    THEN [n EXCEPT !.ndi_sources = names, !.selected_source = names[1]]
    ELSE [n EXCEPT !.ndi_sources = <<>>, !.selected_source = "None"]

\* NDIManager.set_selected_source
set_selected_source(n, source_name) ==
    IF source_name \in SeqRange(n.ndi_sources)
    THEN [n EXCEPT !.selected_source = source_name]
    ELSE n

\* NDIManager.connect_to_source; raises says that finder.get_source or
\* receiver.set_source raises.  attempted is the name the connection was
\* attempted to, "None" when none was.
connect_to_source(n, source_name, raises) ==
    IF n.ndi_sources = <<>>
    THEN [n |-> n, ok |-> FALSE, error |-> "No NDI sources available", attempted |-> "None"]
    ELSE LET n1 == IF source_name = "None"
                   THEN IF n.selected_source = "None"
                        THEN [n EXCEPT !.selected_source = n.ndi_sources[1]]
                        ELSE n
                   ELSE [n EXCEPT !.selected_source = source_name]
             name == n1.selected_source
         IN IF raises
            THEN [n |-> [n1 EXCEPT !.connected = FALSE], ok |-> FALSE,
                  error |-> "exception", attempted |-> name]
            ELSE [n |-> [n1 EXCEPT !.connected = TRUE, !.receiver_source = name],
                  ok |-> TRUE, error |-> "None", attempted |-> name]

RefreshSources ==
    /\ ~ndi_call.made
    /\ \E names \in SourceLists : ndi' = refresh_sources(ndi, names)
    /\ UNCHANGED <<now, rcs_state, rcs_call, obs, tracker, frame_call, detector,
                   smoke_call, SCIPY_AVAILABLE, shape_call, pid, dispatch_call,
                   serial, movement_lock_state, mouse_call, listener, capture,
                   capture_call, gst, gst_call, net, net_call, ndi_call, mss, mss_call, strafe, strafe_call, monitor, monitor_call, hsv, crop, pull, lst, rdr, req, logs>>

SetSelectedSource ==
    /\ ~ndi_call.made
    /\ \E source_name \in SourceNames : ndi' = set_selected_source(ndi, source_name)
    /\ UNCHANGED <<now, rcs_state, rcs_call, obs, tracker, frame_call, detector,
                   smoke_call, SCIPY_AVAILABLE, shape_call, pid, dispatch_call,
                   serial, movement_lock_state, mouse_call, listener, capture,
                   capture_call, gst, gst_call, net, net_call, ndi_call, mss, mss_call, strafe, strafe_call, monitor, monitor_call, hsv, crop, pull, lst, rdr, req, logs>>

ConnectToSource ==
    /\ ~ndi_call.made
    /\ \E source_name \in SourceNames \cup {"None"}, raises \in BOOLEAN :
        LET r == connect_to_source(ndi, source_name, raises)
        IN /\ ndi' = r.n
           /\ ndi_call' = [made |-> TRUE, source_name |-> source_name, ok |-> r.ok,
                           error |-> r.error, attempted |-> r.attempted, before |-> ndi]
    /\ UNCHANGED <<now, rcs_state, rcs_call, obs, tracker, frame_call, detector,
                   smoke_call, SCIPY_AVAILABLE, shape_call, pid, dispatch_call,
                   serial, movement_lock_state, mouse_call, listener, capture,
                   capture_call, gst, gst_call, net, net_call, mss, mss_call, strafe, strafe_call, monitor, monitor_call, hsv, crop, pull, lst, rdr, req, logs>>

NdiReturn ==
    /\ ndi_call.made
    /\ ndi_call' = NoCall
    /\ UNCHANGED <<now, rcs_state, rcs_call, obs, tracker, frame_call, detector,
                   smoke_call, SCIPY_AVAILABLE, shape_call, pid, dispatch_call,
                   serial, movement_lock_state, mouse_call, listener, capture,
                   capture_call, gst, gst_call, net, net_call, ndi, mss, mss_call, strafe, strafe_call, monitor, monitor_call, hsv, crop, pull, lst, rdr, req, logs>>

InitNdi ==
    /\ InitCore
    /\ RestScipy
    /\ RestShape
    /\ RestPid
    /\ RestDispatch
    /\ RestSerial
    /\ RestMovement
    /\ RestMouseCall
    /\ RestListener
    /\ RestCapture
    /\ RestCaptureCall
    /\ RestGst
    /\ RestGstCall
    /\ RestNet
    /\ RestNetCall
    /\ RestNdi
    /\ RestNdiCall
    /\ RestMss
    /\ RestMssCall
    /\ RestStrafe
    /\ RestStrafeCall
    /\ RestMonitor
    /\ RestMonitorCall
    /\ RestHsv
    /\ RestCrop
    /\ RestPull
    /\ RestLst
    /\ RestRdr
    /\ RestReq
    /\ RestLogs

NextNdi == RefreshSources \/ SetSelectedSource \/ ConnectToSource \/ NdiReturn

SpecNdi == InitNdi /\ [][NextNdi]_vars

\* ====================================================== mss_capture.py
\* fov_x and fov_y are kept in tenths of a pixel, so that a float argument
\* such as 15.9 and its truncation by int() are told apart.
MaxMonitors == 3          \* len(sct.monitors) is at most MaxMonitors

\* int(x) of Python: truncation toward zero, here of a value in tenths.
int_of_tenths(x) == IF x >= 0 THEN x \div 10 ELSE 0 - ((0 - x) \div 10)

FovArguments == {0 - 5, 0, 50, 159, 160, 165, 3200}

MonitorIndexes == {0 - 1, 0, 1, 2, 3}

\* MSSCapture(monitor_index, fov_x, fov_y)
mss_init(monitor_index, fov_x, fov_y) ==
    [exists |-> TRUE, monitor_index |-> monitor_index, fov_x |-> fov_x, fov_y |-> fov_y,
     connected |-> FALSE, monitor_info |-> None]

\* max(16, .)
floor16(x) == IF x > 16 THEN x ELSE 16

\* MSSCapture.set_fov
set_fov(m, fov_x, fov_y) ==
    [m EXCEPT !.fov_x = 10 * floor16(int_of_tenths(fov_x)),
              !.fov_y = 10 * floor16(int_of_tenths(fov_y))]

\* MSSCapture.set_monitor
set_monitor(m, monitor_index) == [m EXCEPT !.monitor_index = monitor_index]

\* monitors[i] of a list of length len: the position Python reads, None
\* when it raises IndexError.
py_index(i, len) ==
    IF i >= 0 /\ i < len THEN i
    ELSE IF i < 0 /\ i + len >= 0 THEN i + len
    ELSE None

\* MSSCapture.connect, lines 83-84: the refusal returns without touching
\* _connected.
connected_after_refusal(m) == m.connected

\* MSSCapture.connect with len(sct.monitors) = len; raises says that
\* mss.mss() or sct.monitors raises.
mss_connect(m, len, raises) ==
    IF raises THEN [m |-> [m EXCEPT !.connected = FALSE], ok |-> FALSE]
    ELSE IF m.monitor_index >= len
    THEN [m |-> [m EXCEPT !.connected = connected_after_refusal(m)], ok |-> FALSE]
    ELSE IF py_index(m.monitor_index, len) = None
    THEN [m |-> [m EXCEPT !.connected = FALSE], ok |-> FALSE]
    ELSE [m |-> [m EXCEPT !.connected = TRUE,
                          !.monitor_info = py_index(m.monitor_index, len)],
          ok |-> TRUE]

\* MSSCapture.disconnect
mss_disconnect(m) == [m EXCEPT !.connected = FALSE]

\* MSSCapture.get_frame: whether it returns a frame; grab_raises says that
\* sct.grab raises.
get_frame_returns_frame(m, grab_raises) == m.connected /\ ~grab_raises

MssNew ==
    /\ ~mss_call.made
    /\ \E monitor_index \in MonitorIndexes, fov_x \in FovArguments, fov_y \in FovArguments :
        /\ mss' = mss_init(monitor_index, fov_x, fov_y)
        /\ mss_call' = [made |-> TRUE, op |-> "init", ok |-> TRUE, len |-> 0, before |-> mss]
    /\ UNCHANGED <<now, rcs_state, rcs_call, obs, tracker, frame_call, detector,
                   smoke_call, SCIPY_AVAILABLE, shape_call, pid, dispatch_call,
                   serial, movement_lock_state, mouse_call, listener, capture,
                   capture_call, gst, gst_call, net, net_call, ndi, ndi_call, strafe, strafe_call, monitor, monitor_call, hsv, crop, pull, lst, rdr, req, logs>>

MssSetFov ==
    /\ ~mss_call.made
    /\ mss.exists
    /\ \E fov_x \in FovArguments, fov_y \in FovArguments :
        /\ mss' = set_fov(mss, fov_x, fov_y)
        /\ mss_call' = [made |-> TRUE, op |-> "set_fov", ok |-> TRUE, len |-> 0, before |-> mss]
    /\ UNCHANGED <<now, rcs_state, rcs_call, obs, tracker, frame_call, detector,
                   smoke_call, SCIPY_AVAILABLE, shape_call, pid, dispatch_call,
                   serial, movement_lock_state, mouse_call, listener, capture,
                   capture_call, gst, gst_call, net, net_call, ndi, ndi_call, strafe, strafe_call, monitor, monitor_call, hsv, crop, pull, lst, rdr, req, logs>>

MssSetMonitor ==
    /\ ~mss_call.made
    /\ mss.exists
    /\ \E monitor_index \in MonitorIndexes :
        /\ mss' = set_monitor(mss, monitor_index)
        /\ mss_call' = [made |-> TRUE, op |-> "set_monitor", ok |-> TRUE, len |-> 0,
                        before |-> mss]
    /\ UNCHANGED <<now, rcs_state, rcs_call, obs, tracker, frame_call, detector,
                   smoke_call, SCIPY_AVAILABLE, shape_call, pid, dispatch_call,
                   serial, movement_lock_state, mouse_call, listener, capture,
                   capture_call, gst, gst_call, net, net_call, ndi, ndi_call, strafe, strafe_call, monitor, monitor_call, hsv, crop, pull, lst, rdr, req, logs>>

MssConnect ==
    /\ ~mss_call.made
    /\ mss.exists
    /\ \E len \in 2..MaxMonitors, raises \in BOOLEAN :
        /\ mss' = mss_connect(mss, len, raises).m
        /\ mss_call' = [made |-> TRUE, op |-> "connect",
                        ok |-> mss_connect(mss, len, raises).ok, len |-> len, before |-> mss]
    /\ UNCHANGED <<now, rcs_state, rcs_call, obs, tracker, frame_call, detector,
                   smoke_call, SCIPY_AVAILABLE, shape_call, pid, dispatch_call,
                   serial, movement_lock_state, mouse_call, listener, capture,
                   capture_call, gst, gst_call, net, net_call, ndi, ndi_call, strafe, strafe_call, monitor, monitor_call, hsv, crop, pull, lst, rdr, req, logs>>

MssDisconnect ==
    /\ ~mss_call.made
    /\ mss.exists
    /\ mss' = mss_disconnect(mss)
    /\ mss_call' = [made |-> TRUE, op |-> "disconnect", ok |-> TRUE, len |-> 0, before |-> mss]
    /\ UNCHANGED <<now, rcs_state, rcs_call, obs, tracker, frame_call, detector,
                   smoke_call, SCIPY_AVAILABLE, shape_call, pid, dispatch_call,
                   serial, movement_lock_state, mouse_call, listener, capture,
                   capture_call, gst, gst_call, net, net_call, ndi, ndi_call, strafe, strafe_call, monitor, monitor_call, hsv, crop, pull, lst, rdr, req, logs>>

MssReturn ==
    /\ mss_call.made
    /\ mss_call' = NoCall
    /\ UNCHANGED <<now, rcs_state, rcs_call, obs, tracker, frame_call, detector,
                   smoke_call, SCIPY_AVAILABLE, shape_call, pid, dispatch_call,
                   serial, movement_lock_state, mouse_call, listener, capture,
                   capture_call, gst, gst_call, net, net_call, ndi, ndi_call, mss, strafe, strafe_call, monitor, monitor_call, hsv, crop, pull, lst, rdr, req, logs>>

InitMss ==
    /\ InitCore
    /\ RestScipy
    /\ RestShape
    /\ RestPid
    /\ RestDispatch
    /\ RestSerial
    /\ RestMovement
    /\ RestMouseCall
    /\ RestListener
    /\ RestCapture
    /\ RestCaptureCall
    /\ RestGst
    /\ RestGstCall
    /\ RestNet
    /\ RestNetCall
    /\ RestNdi
    /\ RestNdiCall
    /\ RestMss
    /\ RestMssCall
    /\ RestStrafe
    /\ RestStrafeCall
    /\ RestMonitor
    /\ RestMonitorCall
    /\ RestHsv
    /\ RestCrop
    /\ RestPull
    /\ RestLst
    /\ RestRdr
    /\ RestReq
    /\ RestLogs

NextMss ==
    \/ MssNew
    \/ MssSetFov
    \/ MssSetMonitor
    \/ MssConnect
    \/ MssDisconnect
    \/ MssReturn

SpecMss == InitMss /\ [][NextMss]_vars

\* ============================================ trigger_strafe_helper.py
\* Times are in tenths of a millisecond; configured durations are in tenths
\* of a millisecond too, so that int() has something to truncate.
MaxStrafeTime == 40       \* the clock stops at MaxStrafeTime
ClockStep == 5

STRAFE_MODE_OFF == "off"
STRAFE_MODE_AUTO == "auto"
STRAFE_MODE_MANUAL_WAIT == "manual_wait"
_STRAFE_MODES == {STRAFE_MODE_OFF, STRAFE_MODE_AUTO, STRAFE_MODE_MANUAL_WAIT}

_MOVEMENT_KEYS == <<"W", "A", "S", "D">>

RawStrafeModes == {"off", "auto", "manual_wait", " Manual_Wait ", "fast"}

\* str(value).strip().lower() on the names of the model.
strafe_stripped_lower(value) == IF value = " Manual_Wait " THEN "manual_wait" ELSE value

normalize_strafe_mode(value) ==
    IF strafe_stripped_lower(value) \notin _STRAFE_MODES THEN STRAFE_MODE_OFF
    ELSE strafe_stripped_lower(value)

\* get_strafe_mode; supports is the answer of supports_trigger_strafe_ui.
get_strafe_mode(supports, value) ==
    IF ~supports THEN STRAFE_MODE_OFF ELSE normalize_strafe_mode(value)

\* A snapshot is the set of the movement keys read pressed.
Snapshots == SUBSET {"W", "A", "S", "D"}

_is_axis_neutral(negative_key, positive_key, snapshot) ==
    (negative_key \in snapshot) = (positive_key \in snapshot)

_is_movement_neutral(snapshot) ==
    _is_axis_neutral("A", "D", snapshot) /\ _is_axis_neutral("W", "S", snapshot)

NeutralMsSettings == {0 - 10, 0, 10, 15, 20}

\* max(0, int(.)) of a configured duration
required_ms_of(setting) == Max(0, int_of_tenths(setting))

\* Mutant: a call that observes movement keeps the timer.
timer_after_movement_kept(neutral_since) == neutral_since

\* line 88: state_dict["strafe_manual_neutral_since"] = None
timer_after_movement(neutral_since) == None

\* apply_manual_wait_gate at time t, with neutral_since the timer of the
\* state_dict: the timer afterwards, the verdict and the reason.
apply_manual_wait_gate(neutral_since, t, mode, snapshot, setting) ==
    IF mode # STRAFE_MODE_MANUAL_WAIT
    THEN [neutral_since |-> None, ok |-> TRUE, reason |-> "None"]
    ELSE IF ~_is_movement_neutral(snapshot)
    THEN [neutral_since |-> timer_after_movement(neutral_since), ok |-> FALSE,
          reason |-> "STRAFE_WAIT_MOVEMENT"]
    ELSE IF required_ms_of(setting) <= 0
    THEN [neutral_since |-> neutral_since, ok |-> TRUE, reason |-> "None"]
    ELSE LET since == IF neutral_since = None THEN t ELSE neutral_since
             elapsed_ms == int_of_tenths(t - since)
         IN IF elapsed_ms >= required_ms_of(setting)
            THEN [neutral_since |-> since, ok |-> TRUE, reason |-> "None"]
            ELSE [neutral_since |-> since, ok |-> FALSE, reason |-> "STRAFE_WAIT_NEUTRAL"]

\* _resolve_auto_opposing_keys
_resolve_auto_opposing_keys(snapshot) ==
    (IF "A" \in snapshot /\ "D" \notin snapshot THEN <<"D">>
     ELSE IF "D" \in snapshot /\ "A" \notin snapshot THEN <<"A">>
     ELSE <<>>)
    \o
    (IF "W" \in snapshot /\ "S" \notin snapshot THEN <<"S">>
     ELSE IF "S" \in snapshot /\ "W" \notin snapshot THEN <<"W">>
     ELSE <<>>)

reversed(s) == [i \in 1..Len(s) |-> s[Len(s) + 1 - i]]

\* Mutant: the keys are released in the order they were pressed.
release_order_same(opposing_keys) == opposing_keys

\* line 159: for key in reversed(opposing_keys)
release_order(opposing_keys) == reversed(opposing_keys)

key_events(kind, keys, raising) ==
    [i \in 1..Len(keys) |-> [e |-> kind, key |-> keys[i], raised |-> keys[i] \in raising]]

ShotOutcomes == {"return", "raise"}

shot_event(shot) == <<[e |-> "shot_func", key |-> "", raised |-> (shot = "raise")]>>

\* run_with_auto_strafe: the calls it makes, in order, and how it ends.
\* down_raising and up_raising are the keys for which key_down and key_up
\* raise (the _safe_ wrappers swallow the exception); lead_raises says that
\* int() of the configured lead time raises.
run_with_auto_strafe(mode, snapshot, down_raising, up_raising, lead_raises, shot) ==
    LET opposing_keys == _resolve_auto_opposing_keys(snapshot)
    IN IF mode # STRAFE_MODE_AUTO \/ opposing_keys = <<>>
       THEN [events |-> shot_event(shot), ends |-> shot]
       ELSE IF lead_raises
       THEN [events |-> key_events("key_down", opposing_keys, down_raising), ends |-> "raise"]
       ELSE [events |-> key_events("key_down", opposing_keys, down_raising)
                        \o shot_event(shot)
                        \o key_events("key_up", release_order(opposing_keys), up_raising),
             ends |-> shot]

StrafeIdle == ~strafe_call.made

ApplyManualWaitGate ==
    /\ StrafeIdle
    /\ \E supports \in BOOLEAN, value \in RawStrafeModes, snapshot \in Snapshots,
          setting \in NeutralMsSettings :
        LET mode == get_strafe_mode(supports, value)
            r == apply_manual_wait_gate(strafe.neutral_since, strafe.time, mode, snapshot,
                                        setting)
            observed == mode = STRAFE_MODE_MANUAL_WAIT
            started == strafe.neutral_since = None /\ r.neutral_since # None
        IN /\ strafe' = [strafe EXCEPT
                  !.neutral_since = r.neutral_since,
                  !.timer_start = IF started THEN strafe.time ELSE @,
                  !.all_neutral = IF started THEN _is_movement_neutral(snapshot)
                                  ELSE IF observed /\ ~_is_movement_neutral(snapshot)
                                       THEN FALSE ELSE @]
           /\ strafe_call' = [made |-> TRUE, op |-> "gate", mode |-> mode,
                              neutral |-> _is_movement_neutral(snapshot),
                              required_ms |-> required_ms_of(setting),
                              ok |-> r.ok, reason |-> r.reason, events |-> <<>>,
                              ends |-> "return"]
    /\ UNCHANGED <<now, rcs_state, rcs_call, obs, tracker, frame_call, detector,
                   smoke_call, SCIPY_AVAILABLE, shape_call, pid, dispatch_call,
                   serial, movement_lock_state, mouse_call, listener, capture,
                   capture_call, gst, gst_call, net, net_call, ndi, ndi_call, mss, mss_call, monitor, monitor_call, hsv, crop, pull, lst, rdr, req, logs>>

RunWithAutoStrafe ==
    /\ StrafeIdle
    /\ \E supports \in BOOLEAN, value \in RawStrafeModes, snapshot \in Snapshots,
          down_raising \in SUBSET {"A", "W"}, up_raising \in SUBSET {"D", "W"},
          lead_raises \in BOOLEAN, shot \in ShotOutcomes :
        LET mode == get_strafe_mode(supports, value)
            r == run_with_auto_strafe(mode, snapshot, down_raising, up_raising,
                                      lead_raises, shot)
        IN strafe_call' = [made |-> TRUE, op |-> "auto", mode |-> mode, neutral |-> TRUE,
                           required_ms |-> 0, ok |-> TRUE, reason |-> "None",
                           events |-> r.events, ends |-> r.ends]
    /\ UNCHANGED <<now, rcs_state, rcs_call, obs, tracker, frame_call, detector,
                   smoke_call, SCIPY_AVAILABLE, shape_call, pid, dispatch_call,
                   serial, movement_lock_state, mouse_call, listener, capture,
                   capture_call, gst, gst_call, net, net_call, ndi, ndi_call, mss, mss_call,
                   strafe, monitor, monitor_call, hsv, crop, pull, lst, rdr, req, logs>>

\* reset_strafe_runtime_state
ResetStrafeRuntimeState ==
    /\ StrafeIdle
    /\ strafe' = [strafe EXCEPT !.neutral_since = None]
    /\ strafe_call' = [made |-> TRUE, op |-> "reset", mode |-> "off", neutral |-> TRUE,
                       required_ms |-> 0, ok |-> TRUE, reason |-> "None", events |-> <<>>,
                       ends |-> "return"]
    /\ UNCHANGED <<now, rcs_state, rcs_call, obs, tracker, frame_call, detector,
                   smoke_call, SCIPY_AVAILABLE, shape_call, pid, dispatch_call,
                   serial, movement_lock_state, mouse_call, listener, capture,
                   capture_call, gst, gst_call, net, net_call, ndi, ndi_call, mss, mss_call, monitor, monitor_call, hsv, crop, pull, lst, rdr, req, logs>>

\* time.time() moves on between two calls.
StrafeClock ==
    /\ StrafeIdle
    /\ strafe.time + ClockStep <= MaxStrafeTime
    /\ strafe' = [strafe EXCEPT !.time = @ + ClockStep]
    /\ UNCHANGED <<now, rcs_state, rcs_call, obs, tracker, frame_call, detector,
                   smoke_call, SCIPY_AVAILABLE, shape_call, pid, dispatch_call,
                   serial, movement_lock_state, mouse_call, listener, capture,
                   capture_call, gst, gst_call, net, net_call, ndi, ndi_call, mss, mss_call,
                   strafe_call, monitor, monitor_call, hsv, crop, pull, lst, rdr, req, logs>>

StrafeReturn ==
    /\ strafe_call.made
    /\ strafe_call' = NoCall
    /\ UNCHANGED <<now, rcs_state, rcs_call, obs, tracker, frame_call, detector,
                   smoke_call, SCIPY_AVAILABLE, shape_call, pid, dispatch_call,
                   serial, movement_lock_state, mouse_call, listener, capture,
                   capture_call, gst, gst_call, net, net_call, ndi, ndi_call, mss, mss_call,
                   strafe, monitor, monitor_call, hsv, crop, pull, lst, rdr, req, logs>>

InitStrafe ==
    /\ InitCore
    /\ RestScipy
    /\ RestShape
    /\ RestPid
    /\ RestDispatch
    /\ RestSerial
    /\ RestMovement
    /\ RestMouseCall
    /\ RestListener
    /\ RestCapture
    /\ RestCaptureCall
    /\ RestGst
    /\ RestGstCall
    /\ RestNet
    /\ RestNetCall
    /\ RestNdi
    /\ RestNdiCall
    /\ RestMss
    /\ RestMssCall
    /\ RestStrafe
    /\ RestStrafeCall
    /\ RestMonitor
    /\ RestMonitorCall
    /\ RestHsv
    /\ RestCrop
    /\ RestPull
    /\ RestLst
    /\ RestRdr
    /\ RestReq
    /\ RestLogs

NextStrafe ==
    \/ ApplyManualWaitGate
    \/ RunWithAutoStrafe
    \/ ResetStrafeRuntimeState
    \/ StrafeClock
    \/ StrafeReturn

SpecStrafe == InitStrafe /\ [][NextStrafe]_vars

\* ====================================================== mouse_input.py
MaxUpdates == 3           \* update() calls recorded after one enable()

Buttons == 0..4

\* What is_button_pressed answers for the five buttons at one moment: the
\* set of the buttons that are down.
ButtonReads == {{}, {0}, {1}, {0, 1}, {4}, {0, 4}}

zero_counts == [i \in Buttons |-> 0]

\* MouseInputMonitor.enable with the buttons in read down.
monitor_enable(m, read) ==
    [m EXCEPT !.is_enabled = TRUE,
              !.button_counts = zero_counts,
              !.last_button_states = [i \in Buttons |-> i \in read]]

\* MouseInputMonitor.disable
monitor_disable(m) == [m EXCEPT !.is_enabled = FALSE]

\* Mutant: a button counts whenever it is read pressed.
press_event_level(last_state, current_state) == current_state

\* line 47: if not last_state and current_state
press_event(last_state, current_state) == ~last_state /\ current_state

\* MouseInputMonitor.update with the buttons in read down.
monitor_update(m, read) ==
    IF ~m.is_enabled THEN m
    ELSE [m EXCEPT
            !.button_counts =
                [i \in Buttons |->
                    IF press_event(m.last_button_states[i], i \in read)
                    THEN m.button_counts[i] + 1 ELSE m.button_counts[i]],
            !.last_button_states = [i \in Buttons |-> i \in read]]

\* MouseInputMonitor.reset_counts
reset_counts(m) == [m EXCEPT !.button_counts = zero_counts]

MonitorIdle == ~monitor_call.made

MonitorEnable ==
    /\ MonitorIdle
    /\ \E read \in ButtonReads :
        /\ monitor' = [monitor_enable(monitor, read) EXCEPT !.reads = <<read>>, !.reset_at = 0]
        /\ monitor_call' = [made |-> TRUE, op |-> "enable", before |-> monitor]
    /\ UNCHANGED <<now, rcs_state, rcs_call, obs, tracker, frame_call, detector,
                   smoke_call, SCIPY_AVAILABLE, shape_call, pid, dispatch_call,
                   serial, movement_lock_state, mouse_call, listener, capture,
                   capture_call, gst, gst_call, net, net_call, ndi, ndi_call, mss, mss_call,
                   strafe, strafe_call, hsv, crop, pull, lst, rdr, req, logs>>

MonitorDisable ==
    /\ MonitorIdle
    /\ monitor' = monitor_disable(monitor)
    /\ monitor_call' = [made |-> TRUE, op |-> "disable", before |-> monitor]
    /\ UNCHANGED <<now, rcs_state, rcs_call, obs, tracker, frame_call, detector,
                   smoke_call, SCIPY_AVAILABLE, shape_call, pid, dispatch_call,
                   serial, movement_lock_state, mouse_call, listener, capture,
                   capture_call, gst, gst_call, net, net_call, ndi, ndi_call, mss, mss_call,
                   strafe, strafe_call, hsv, crop, pull, lst, rdr, req, logs>>

MonitorUpdate ==
    /\ MonitorIdle
    /\ monitor.is_enabled => Len(monitor.reads) <= MaxUpdates
    /\ \E read \in ButtonReads :
        /\ monitor' = [monitor_update(monitor, read) EXCEPT
                          !.reads = IF monitor.is_enabled THEN Append(@, read) ELSE @]
        /\ monitor_call' = [made |-> TRUE, op |-> "update", before |-> monitor]
    /\ UNCHANGED <<now, rcs_state, rcs_call, obs, tracker, frame_call, detector,
                   smoke_call, SCIPY_AVAILABLE, shape_call, pid, dispatch_call,
                   serial, movement_lock_state, mouse_call, listener, capture,
                   capture_call, gst, gst_call, net, net_call, ndi, ndi_call, mss, mss_call,
                   strafe, strafe_call, hsv, crop, pull, lst, rdr, req, logs>>

MonitorResetCounts ==
    /\ MonitorIdle
    /\ monitor' = [reset_counts(monitor) EXCEPT !.reset_at = Len(monitor.reads)]
    /\ monitor_call' = [made |-> TRUE, op |-> "reset_counts", before |-> monitor]
    /\ UNCHANGED <<now, rcs_state, rcs_call, obs, tracker, frame_call, detector,
                   smoke_call, SCIPY_AVAILABLE, shape_call, pid, dispatch_call,
                   serial, movement_lock_state, mouse_call, listener, capture,
                   capture_call, gst, gst_call, net, net_call, ndi, ndi_call, mss, mss_call,
                   strafe, strafe_call, hsv, crop, pull, lst, rdr, req, logs>>

MonitorReturn ==
    /\ monitor_call.made
    /\ monitor_call' = NoCall
    /\ UNCHANGED <<now, rcs_state, rcs_call, obs, tracker, frame_call, detector,
                   smoke_call, SCIPY_AVAILABLE, shape_call, pid, dispatch_call,
                   serial, movement_lock_state, mouse_call, listener, capture,
                   capture_call, gst, gst_call, net, net_call, ndi, ndi_call, mss, mss_call,
                   strafe, strafe_call, monitor, hsv, crop, pull, lst, rdr, req, logs>>

InitMonitor ==
    /\ InitCore
    /\ RestScipy
    /\ RestShape
    /\ RestPid
    /\ RestDispatch
    /\ RestSerial
    /\ RestMovement
    /\ RestMouseCall
    /\ RestListener
    /\ RestCapture
    /\ RestCaptureCall
    /\ RestGst
    /\ RestGstCall
    /\ RestNet
    /\ RestNetCall
    /\ RestNdi
    /\ RestNdiCall
    /\ RestMss
    /\ RestMssCall
    /\ RestStrafe
    /\ RestStrafeCall
    /\ RestMonitor
    /\ RestMonitorCall
    /\ RestHsv
    /\ RestCrop
    /\ RestPull
    /\ RestLst
    /\ RestRdr
    /\ RestReq
    /\ RestLogs

NextMonitor ==
    \/ MonitorEnable
    \/ MonitorDisable
    \/ MonitorUpdate
    \/ MonitorResetCounts
    \/ MonitorReturn

SpecMonitor == InitMonitor /\ [][NextMonitor]_vars

\* ===================================================== ui_hsv_preview.py
MaxHsvOps == 4            \* slider moves, picks, Apply and Reset in one run

EYEDROPPER_H_TOL == 8
EYEDROPPER_S_TOL == 45
EYEDROPPER_V_TOL == 45

Channels == {"h", "s", "v"}

\* The upper end of a channel's sliders (lines 218-220).
ChannelMax(ch) == IF ch = "h" THEN 179 ELSE 255

Tolerance(ch) ==
    CASE ch = "h" -> EYEDROPPER_H_TOL
      [] ch = "s" -> EYEDROPPER_S_TOL
      [] ch = "v" -> EYEDROPPER_V_TOL

\* round() of Python on a value in tenths: to the nearest integer, a half to
\* the even one.
round_of_tenths(x) ==
    LET q == x \div 10
        r == x % 10
    IN IF r < 5 THEN q
       ELSE IF r > 5 THEN q + 1
       ELSE IF q % 2 = 0 THEN q ELSE q + 1

\* The custom_hsv_* fields the window may find when it opens: the defaults,
\* a narrow range, and one with min above max on the hue.
InitialConfigs ==
    { [min |-> [ch \in Channels |-> 0], max |-> [ch \in Channels |-> ChannelMax(ch)]],
      [min |-> [ch \in Channels |-> IF ch = "h" THEN 40 ELSE 50],
       max |-> [ch \in Channels |-> IF ch = "h" THEN 80 ELSE 150]],
      [min |-> [ch \in Channels |-> IF ch = "h" THEN 100 ELSE 0],
       max |-> [ch \in Channels |-> IF ch = "h" THEN 50 ELSE 255]] }

\* Slider positions in tenths.
SliderValues(ch) == IF ch = "h" THEN {305, 1200} ELSE {415, 2100}

\* HSV pixels of the preview (cv2.COLOR_BGR2HSV: h in 0..179, s and v in 0..255).
PickedPixels ==
    { [h |-> 60, s |-> 120, v |-> 200],
      [h |-> 3, s |-> 20, v |-> 30],
      [h |-> 179, s |-> 255, v |-> 230] }

\* Mutant: moving a slider leaves its partner alone.
partner_after_untouched(is_low, ival, partner) == partner

\* _on_slider, lines 399-402: the partner follows when the order would break.
partner_after(is_low, ival, partner) ==
    IF is_low /\ ival > partner THEN ival
    ELSE IF ~is_low /\ ival < partner THEN ival
    ELSE partner

\* _on_slider for the low or the high slider of channel ch at position val.
_on_slider(w, ch, is_low, val) ==
    LET ival == round_of_tenths(val)
    IN IF is_low
       THEN [w EXCEPT !.lo[ch] = ival, !.hi[ch] = partner_after(TRUE, ival, w.hi[ch])]
       ELSE [w EXCEPT !.hi[ch] = ival, !.lo[ch] = partner_after(FALSE, ival, w.lo[ch])]

\* _on_apply
_on_apply(w) == [w EXCEPT !.config_min = w.lo, !.config_max = w.hi]

\* _set_eyedropper_active
_set_eyedropper_active(w, is_active) == [w EXCEPT !.eyedropper_active = is_active]

\* _on_reset
_on_reset(w) ==
    [_set_eyedropper_active(w, FALSE) EXCEPT !.lo = w.config_min, !.hi = w.config_max]

pick_low(x, tol) == Max(0, x - tol)

\* Mutant: the high slider is set to the value plus the tolerance, unclamped.
pick_high_unclamped(x, tol, top) == x + tol

pick_high(x, tol, top) == Min(top, x + tol)

\* _set_hsv_range_from_pick
_set_hsv_range_from_pick(w, h, s, v) ==
    LET x == [ch \in Channels |-> CASE ch = "h" -> h [] ch = "s" -> s [] ch = "v" -> v]
    IN [w EXCEPT !.lo = [ch \in Channels |-> pick_low(x[ch], Tolerance(ch))],
                 !.hi = [ch \in Channels |-> pick_high(x[ch], Tolerance(ch), ChannelMax(ch))]]

\* _on_preview_click on a pixel of the preview; has_preview says that a
\* frame has been shown.
_on_preview_click(w, has_preview, h, s, v) ==
    IF ~w.eyedropper_active \/ ~has_preview THEN w
    ELSE _set_eyedropper_active(_set_hsv_range_from_pick(w, h, s, v), FALSE)

HsvOnSlider ==
    /\ hsv.ops < MaxHsvOps
    /\ \E ch \in Channels, is_low \in BOOLEAN :
        \E val \in SliderValues(ch) :
            hsv' = [_on_slider(hsv, ch, is_low, val) EXCEPT
                       !.ops = @ + 1,
                       !.last = [op |-> "slider", h |-> 0, s |-> 0, v |-> 0]]
    /\ UNCHANGED <<now, rcs_state, rcs_call, obs, tracker, frame_call, detector,
                   smoke_call, SCIPY_AVAILABLE, shape_call, pid, dispatch_call,
                   serial, movement_lock_state, mouse_call, listener, capture,
                   capture_call, gst, gst_call, net, net_call, ndi, ndi_call, mss, mss_call,
                   strafe, strafe_call, monitor, monitor_call, crop, pull, lst, rdr, req, logs>>

HsvToggleEyedropper ==
    /\ hsv' = [_set_eyedropper_active(hsv, ~hsv.eyedropper_active) EXCEPT
                  !.last = [op |-> "toggle", h |-> 0, s |-> 0, v |-> 0]]
    /\ UNCHANGED <<now, rcs_state, rcs_call, obs, tracker, frame_call, detector,
                   smoke_call, SCIPY_AVAILABLE, shape_call, pid, dispatch_call,
                   serial, movement_lock_state, mouse_call, listener, capture,
                   capture_call, gst, gst_call, net, net_call, ndi, ndi_call, mss, mss_call,
                   strafe, strafe_call, monitor, monitor_call, crop, pull, lst, rdr, req, logs>>

HsvPreviewClick ==
    /\ hsv.ops < MaxHsvOps
    /\ \E p \in PickedPixels, has_preview \in BOOLEAN :
        hsv' = [_on_preview_click(hsv, has_preview, p.h, p.s, p.v) EXCEPT
                   !.ops = @ + 1,
                   !.last = IF hsv.eyedropper_active /\ has_preview
                            THEN [op |-> "pick", h |-> p.h, s |-> p.s, v |-> p.v]
                            ELSE [op |-> "click", h |-> 0, s |-> 0, v |-> 0]]
    /\ UNCHANGED <<now, rcs_state, rcs_call, obs, tracker, frame_call, detector,
                   smoke_call, SCIPY_AVAILABLE, shape_call, pid, dispatch_call,
                   serial, movement_lock_state, mouse_call, listener, capture,
                   capture_call, gst, gst_call, net, net_call, ndi, ndi_call, mss, mss_call,
                   strafe, strafe_call, monitor, monitor_call, crop, pull, lst, rdr, req, logs>>

HsvApply ==
    /\ hsv.ops < MaxHsvOps
    /\ hsv' = [_on_apply(hsv) EXCEPT
                  !.ops = @ + 1,
                  !.last = [op |-> "apply", h |-> 0, s |-> 0, v |-> 0]]
    /\ UNCHANGED <<now, rcs_state, rcs_call, obs, tracker, frame_call, detector,
                   smoke_call, SCIPY_AVAILABLE, shape_call, pid, dispatch_call,
                   serial, movement_lock_state, mouse_call, listener, capture,
                   capture_call, gst, gst_call, net, net_call, ndi, ndi_call, mss, mss_call,
                   strafe, strafe_call, monitor, monitor_call, crop, pull, lst, rdr, req, logs>>

HsvReset ==
    /\ hsv.ops < MaxHsvOps
    /\ hsv' = [_on_reset(hsv) EXCEPT
                  !.ops = @ + 1,
                  !.last = [op |-> "reset", h |-> 0, s |-> 0, v |-> 0]]
    /\ UNCHANGED <<now, rcs_state, rcs_call, obs, tracker, frame_call, detector,
                   smoke_call, SCIPY_AVAILABLE, shape_call, pid, dispatch_call,
                   serial, movement_lock_state, mouse_call, listener, capture,
                   capture_call, gst, gst_call, net, net_call, ndi, ndi_call, mss, mss_call,
                   strafe, strafe_call, monitor, monitor_call, crop, pull, lst, rdr, req, logs>>

\* HsvPreviewWindow.__init__, lines 93-98: the sliders start at the
\* configured values.
InitHsv ==
    /\ InitCore
    /\ RestScipy
    /\ RestShape
    /\ RestPid
    /\ RestDispatch
    /\ RestSerial
    /\ RestMovement
    /\ RestMouseCall
    /\ RestListener
    /\ RestCapture
    /\ RestCaptureCall
    /\ RestGst
    /\ RestGstCall
    /\ RestNet
    /\ RestNetCall
    /\ RestNdi
    /\ RestNdiCall
    /\ RestMss
    /\ RestMssCall
    /\ RestStrafe
    /\ RestStrafeCall
    /\ RestMonitor
    /\ RestMonitorCall
    /\ \E c \in InitialConfigs :
        hsv = [lo |-> c.min, hi |-> c.max, config_min |-> c.min, config_max |-> c.max,
               eyedropper_active |-> FALSE,
               start_ok |-> \A ch \in Channels : c.min[ch] <= c.max[ch],
               ops |-> 0, last |-> [op |-> "init", h |-> 0, s |-> 0, v |-> 0]]
    /\ RestCrop
    /\ RestPull
    /\ RestLst
    /\ RestRdr
    /\ RestReq
    /\ RestLogs

NextHsv ==
    \/ HsvOnSlider
    \/ HsvToggleEyedropper
    \/ HsvPreviewClick
    \/ HsvApply
    \/ HsvReset

SpecHsv == InitHsv /\ [][NextHsv]_vars

\* ================================== CaptureCard.py, crop rectangles
\* A configuration holds capture_width, capture_height, capture_range_x,
\* capture_range_y, capture_offset_x, capture_offset_y and region_size.
CaptureWidths == {320, 1920, 1921}
CaptureHeights == {240, 1080}
CaptureRangesX == {0 - 5, 0, 100, 128, 129, 2000}
CaptureRangesY == {0, 129, 2000}
CaptureOffsetsX == {0 - 3000, 0 - 1, 0, 7, 3000}
CaptureOffsetsY == {0 - 3000, 0, 5}
RegionSizes == {50, 200, 300}

\* lines 282-289: a range below 128 is replaced by max(128, region_size).
range_or_region_size(range, region_size) ==
    IF range < 128 THEN Max(128, region_size) ELSE range

\* Mutant: the far edge is not cut at the base size.
clamp_far_uncut(near, far, base) == Max(near, far)

\* lines 305-306: right = max(left, min(right, base_w))
clamp_far(near, far, base) == Max(near, Min(far, base))

clamp_near(near, base) == Max(0, Min(near, base))

\* One axis of the rectangle of get_latest_frame: <<near, far>>.
frame_axis(base, range, region_size, offset) ==
    LET r == range_or_region_size(range, region_size)
        near == (base \div 2) - (r \div 2) + offset
        far == near + r
    IN <<clamp_near(near, base), clamp_far(clamp_near(near, base), far, base)>>

\* CaptureCardCamera.get_latest_frame: <<left, top, right, bottom>>.
get_latest_frame_rect(c) ==
    LET x == frame_axis(c.capture_width, c.capture_range_x, c.region_size, c.capture_offset_x)
        y == frame_axis(c.capture_height, c.capture_range_y, c.region_size, c.capture_offset_y)
    IN <<x[1], y[1], x[2], y[2]>>

\* CaptureCardGStreamer._crop_frame: the same computation.
_crop_frame_rect(c) ==
    LET x == frame_axis(c.capture_width, c.capture_range_x, c.region_size, c.capture_offset_x)
        y == frame_axis(c.capture_height, c.capture_range_y, c.region_size, c.capture_offset_y)
    IN <<x[1], y[1], x[2], y[2]>>

\* lines 326-330: a range of zero or less is replaced by region_size.
region_range(range, region_size) == IF range <= 0 THEN region_size ELSE range

\* One axis of get_capture_card_region.
region_axis(base, range, region_size, offset) ==
    LET r == region_range(range, region_size)
        near == ((base - r) \div 2) + offset
        far == near + r
    IN <<clamp_near(near, base), clamp_far(clamp_near(near, base), far, base)>>

\* get_capture_card_region
get_capture_card_region(c) ==
    LET x == region_axis(c.capture_width, c.capture_range_x, c.region_size, c.capture_offset_x)
        y == region_axis(c.capture_height, c.capture_range_y, c.region_size, c.capture_offset_y)
    IN <<x[1], y[1], x[2], y[2]>>

\* The user changes one of the capture-card settings.
SetCropConfig ==
    /\ \E c \in {[crop.config EXCEPT !.capture_width = v] : v \in CaptureWidths}
                 \cup {[crop.config EXCEPT !.capture_height = v] : v \in CaptureHeights}
                 \cup {[crop.config EXCEPT !.capture_range_x = v] : v \in CaptureRangesX}
                 \cup {[crop.config EXCEPT !.capture_range_y = v] : v \in CaptureRangesY}
                 \cup {[crop.config EXCEPT !.capture_offset_x = v] : v \in CaptureOffsetsX}
                 \cup {[crop.config EXCEPT !.capture_offset_y = v] : v \in CaptureOffsetsY}
                 \cup {[crop.config EXCEPT !.region_size = v] : v \in RegionSizes} :
        crop' = [config |-> c, op |-> "none", rect |-> <<0, 0, 0, 0>>]
    /\ UNCHANGED <<now, rcs_state, rcs_call, obs, tracker, frame_call, detector, smoke_call,
                   SCIPY_AVAILABLE, shape_call, pid, dispatch_call, serial,
                   movement_lock_state, mouse_call, listener, capture, capture_call, gst,
                   gst_call, net, net_call, ndi, ndi_call, mss, mss_call, strafe, strafe_call,
                   monitor, monitor_call, hsv, pull, lst, rdr, req, logs>>

GetLatestFrame ==
    /\ crop' = [crop EXCEPT !.op = "get_latest_frame",
                            !.rect = get_latest_frame_rect(crop.config)]
    /\ UNCHANGED <<now, rcs_state, rcs_call, obs, tracker, frame_call, detector, smoke_call,
                   SCIPY_AVAILABLE, shape_call, pid, dispatch_call, serial,
                   movement_lock_state, mouse_call, listener, capture, capture_call, gst,
                   gst_call, net, net_call, ndi, ndi_call, mss, mss_call, strafe, strafe_call,
                   monitor, monitor_call, hsv, pull, lst, rdr, req, logs>>

CropFrame ==
    /\ crop' = [crop EXCEPT !.op = "_crop_frame", !.rect = _crop_frame_rect(crop.config)]
    /\ UNCHANGED <<now, rcs_state, rcs_call, obs, tracker, frame_call, detector, smoke_call,
                   SCIPY_AVAILABLE, shape_call, pid, dispatch_call, serial,
                   movement_lock_state, mouse_call, listener, capture, capture_call, gst,
                   gst_call, net, net_call, ndi, ndi_call, mss, mss_call, strafe, strafe_call,
                   monitor, monitor_call, hsv, pull, lst, rdr, req, logs>>

GetCaptureCardRegion ==
    /\ crop' = [crop EXCEPT !.op = "get_capture_card_region",
                            !.rect = get_capture_card_region(crop.config)]
    /\ UNCHANGED <<now, rcs_state, rcs_call, obs, tracker, frame_call, detector, smoke_call,
                   SCIPY_AVAILABLE, shape_call, pid, dispatch_call, serial,
                   movement_lock_state, mouse_call, listener, capture, capture_call, gst,
                   gst_call, net, net_call, ndi, ndi_call, mss, mss_call, strafe, strafe_call,
                   monitor, monitor_call, hsv, pull, lst, rdr, req, logs>>

InitCrop ==
    /\ InitCore
    /\ RestScipy
    /\ RestShape
    /\ RestPid
    /\ RestDispatch
    /\ RestSerial
    /\ RestMovement
    /\ RestMouseCall
    /\ RestListener
    /\ RestCapture
    /\ RestCaptureCall
    /\ RestGst
    /\ RestGstCall
    /\ RestNet
    /\ RestNetCall
    /\ RestNdi
    /\ RestNdiCall
    /\ RestMss
    /\ RestMssCall
    /\ RestStrafe
    /\ RestStrafeCall
    /\ RestMonitor
    /\ RestMonitorCall
    /\ RestHsv
    /\ RestCrop
    /\ RestPull
    /\ RestLst
    /\ RestRdr
    /\ RestReq
    /\ RestLogs

NextCrop ==
    \/ SetCropConfig
    \/ GetLatestFrame
    \/ CropFrame
    \/ GetCaptureCardRegion

SpecCrop == InitCrop /\ [][NextCrop]_vars

\* =============================================== RCS.py, pull threads
MaxCycles == 3            \* activations of RCS in one run

PullSpeeds == {1, 2}

\* Thread.is_alive() of _rcs_state["rcs_thread"].
pull_thread_is_alive(p) == p.thread.pos \in {"check", "move", "exiting"}

\* lines 111-112: a thread that is still alive is kept and start_rcs returns.
reuses_live_thread(p) == p.thread.pos # "None" /\ pull_thread_is_alive(p)

\* start_rcs(controller, pull_speed); cycle counts the transitions from
\* inactive to active.
start_rcs_cycle(p, pull_speed) ==
    IF p.is_active THEN p
    ELSE IF reuses_live_thread(p)
    THEN [p EXCEPT !.is_active = TRUE, !.cycle = @ + 1, !.cycle_speed = pull_speed]
    ELSE [p EXCEPT !.is_active = TRUE, !.cycle = @ + 1, !.cycle_speed = pull_speed,
                   !.thread = [pos |-> "check", pull_speed |-> pull_speed,
                               cycle |-> p.cycle + 1]]

\* stop_rcs
stop_rcs_cycle(p) == [p EXCEPT !.is_active = FALSE]

StartRcs ==
    /\ pull.cycle < MaxCycles \/ pull.is_active
    /\ \E pull_speed \in PullSpeeds :
        pull' = [start_rcs_cycle(pull, pull_speed) EXCEPT !.move = [made |-> FALSE]]
    /\ UNCHANGED <<now, rcs_state, rcs_call, obs, tracker, frame_call, detector, smoke_call,
                   SCIPY_AVAILABLE, shape_call, pid, dispatch_call, serial,
                   movement_lock_state, mouse_call, listener, capture, capture_call, gst,
                   gst_call, net, net_call, ndi, ndi_call, mss, mss_call, strafe, strafe_call,
                   monitor, monitor_call, hsv, crop, lst, rdr, req, logs>>

StopRcs ==
    /\ pull' = [stop_rcs_cycle(pull) EXCEPT !.move = [made |-> FALSE]]
    /\ UNCHANGED <<now, rcs_state, rcs_call, obs, tracker, frame_call, detector, smoke_call,
                   SCIPY_AVAILABLE, shape_call, pid, dispatch_call, serial,
                   movement_lock_state, mouse_call, listener, capture, capture_call, gst,
                   gst_call, net, net_call, ndi, ndi_call, mss, mss_call, strafe, strafe_call,
                   monitor, monitor_call, hsv, crop, lst, rdr, req, logs>>

\* _rcs_pull_loop: the locked test of is_active.
PullLoopCheck ==
    /\ pull.thread.pos = "check"
    /\ pull' = [pull EXCEPT !.thread.pos = IF pull.is_active THEN "move" ELSE "exiting",
                            !.move = [made |-> FALSE]]
    /\ UNCHANGED <<now, rcs_state, rcs_call, obs, tracker, frame_call, detector, smoke_call,
                   SCIPY_AVAILABLE, shape_call, pid, dispatch_call, serial,
                   movement_lock_state, mouse_call, listener, capture, capture_call, gst,
                   gst_call, net, net_call, ndi, ndi_call, mss, mss_call, strafe, strafe_call,
                   monitor, monitor_call, hsv, crop, lst, rdr, req, logs>>

\* _rcs_pull_loop: controller.move(0, move_amount), which may raise, and the
\* sleep after it.
PullLoopMove ==
    /\ pull.thread.pos = "move"
    /\ \E move_ok \in BOOLEAN :
        pull' = [pull EXCEPT
                    !.thread.pos = IF move_ok THEN "check" ELSE "exiting",
                    !.move = [made |-> TRUE, pull_speed |-> pull.thread.pull_speed,
                              thread_cycle |-> pull.thread.cycle,
                              active |-> pull.is_active, cycle |-> pull.cycle,
                              cycle_speed |-> pull.cycle_speed]]
    /\ UNCHANGED <<now, rcs_state, rcs_call, obs, tracker, frame_call, detector, smoke_call,
                   SCIPY_AVAILABLE, shape_call, pid, dispatch_call, serial,
                   movement_lock_state, mouse_call, listener, capture, capture_call, gst,
                   gst_call, net, net_call, ndi, ndi_call, mss, mss_call, strafe, strafe_call,
                   monitor, monitor_call, hsv, crop, lst, rdr, req, logs>>

\* The thread function returns.
PullLoopExit ==
    /\ pull.thread.pos = "exiting"
    /\ pull' = [pull EXCEPT !.thread.pos = "dead", !.move = [made |-> FALSE]]
    /\ UNCHANGED <<now, rcs_state, rcs_call, obs, tracker, frame_call, detector, smoke_call,
                   SCIPY_AVAILABLE, shape_call, pid, dispatch_call, serial,
                   movement_lock_state, mouse_call, listener, capture, capture_call, gst,
                   gst_call, net, net_call, ndi, ndi_call, mss, mss_call, strafe, strafe_call,
                   monitor, monitor_call, hsv, crop, lst, rdr, req, logs>>

InitPull ==
    /\ InitCore
    /\ RestScipy
    /\ RestShape
    /\ RestPid
    /\ RestDispatch
    /\ RestSerial
    /\ RestMovement
    /\ RestMouseCall
    /\ RestListener
    /\ RestCapture
    /\ RestCaptureCall
    /\ RestGst
    /\ RestGstCall
    /\ RestNet
    /\ RestNetCall
    /\ RestNdi
    /\ RestNdiCall
    /\ RestMss
    /\ RestMssCall
    /\ RestStrafe
    /\ RestStrafeCall
    /\ RestMonitor
    /\ RestMonitorCall
    /\ RestHsv
    /\ RestCrop
    /\ RestPull
    /\ RestLst
    /\ RestRdr
    /\ RestReq
    /\ RestLogs

NextPull ==
    \/ StartRcs
    \/ StopRcs
    \/ PullLoopCheck
    \/ PullLoopMove
    \/ PullLoopExit

SpecPull == InitPull /\ [][NextPull]_vars

\* ========================================= mouse.py, listener threads
MaxListeners == 3         \* listener threads started in one run

\* pos is the sequence of the threads started so far, each "loop",
\* "exiting" or "dead".
ListenerIds == 1..Len(lst.pos)

\* Thread.is_alive(): from start() until listen_makcu has returned.
listener_is_alive(l, t) == l.pos[t] \in {"loop", "exiting"}

AliveListeners(l) == {t \in 1..Len(l.pos) : listener_is_alive(l, t)}

\* _start_listener_thread: a thread is started when _listener_thread is None
\* or refers to a thread that is not alive.  The new thread begins by
\* clearing button_states (lines 149-153).
_start_listener_thread(l) ==
    IF l.ref = 0 \/ ~listener_is_alive(l, l.ref)
    THEN [l EXCEPT !.started = @ + 1, !.ref = l.started + 1,
                   !.pos = Append(@, "loop"),
                   !.button_states = [i \in 0..4 |-> FALSE]]
    ELSE l

\* connect_to_makcu as the listener sees it.
connect_to_makcu_listener(l, outcome) ==
    CASE outcome = "connected" -> _start_listener_thread([l EXCEPT !.is_connected = TRUE])
      [] outcome = "raised" -> [l EXCEPT !.is_connected = FALSE]
      [] OTHER -> l

\* switch_to_4m: "refused" (not connected, already at 4M, or another baud
\* rate), "reopened" (the port was closed and opened again, at 4M or back at
\* 115200, lines 236-260 and 264-275), "lost" (the port could not be opened
\* again, lines 276-278).
SwitchOutcomes == {"refused", "reopened", "lost"}

switch_to_4m(l, outcome) ==
    IF ~l.is_connected \/ outcome = "refused" THEN l
    ELSE IF outcome = "reopened" THEN _start_listener_thread([l EXCEPT !.is_connected = TRUE])
    ELSE [l EXCEPT !.is_connected = FALSE]

\* Mouse.cleanup as the listener sees it.
cleanup_listener(l) == [l EXCEPT !.is_connected = FALSE, !.ref = 0]

\* One pass of the loop of thread t: the test of is_connected, then
\* makcu.read(1), which returns the mask v or raises SerialException.
listener_pass(l, t, read_raises, v) ==
    IF ~l.is_connected \/ read_raises THEN [l EXCEPT !.pos[t] = "exiting"]
    ELSE [l EXCEPT !.button_states = [i \in 0..4 |-> bit(v, i)]]

\* lines 181-185: the clean state on exit, and the return of listen_makcu.
listener_finish(l, t) ==
    [l EXCEPT !.pos[t] = "dead", !.button_states = [i \in 0..4 |-> FALSE],
              !.exited = t]

ConnectToMakcuListener ==
    /\ lst.started < MaxListeners
    /\ \E outcome \in ConnectOutcomes :
        lst' = [connect_to_makcu_listener(lst, outcome) EXCEPT !.exited = 0]
    /\ UNCHANGED <<now, rcs_state, rcs_call, obs, tracker, frame_call, detector, smoke_call,
                   SCIPY_AVAILABLE, shape_call, pid, dispatch_call, serial,
                   movement_lock_state, mouse_call, listener, capture, capture_call, gst,
                   gst_call, net, net_call, ndi, ndi_call, mss, mss_call, strafe, strafe_call,
                   monitor, monitor_call, hsv, crop, pull, rdr, req, logs>>

SwitchTo4m ==
    /\ lst.started < MaxListeners
    /\ \E outcome \in SwitchOutcomes :
        lst' = [switch_to_4m(lst, outcome) EXCEPT !.exited = 0]
    /\ UNCHANGED <<now, rcs_state, rcs_call, obs, tracker, frame_call, detector, smoke_call,
                   SCIPY_AVAILABLE, shape_call, pid, dispatch_call, serial,
                   movement_lock_state, mouse_call, listener, capture, capture_call, gst,
                   gst_call, net, net_call, ndi, ndi_call, mss, mss_call, strafe, strafe_call,
                   monitor, monitor_call, hsv, crop, pull, rdr, req, logs>>

CleanupListener ==
    /\ lst' = [cleanup_listener(lst) EXCEPT !.exited = 0]
    /\ UNCHANGED <<now, rcs_state, rcs_call, obs, tracker, frame_call, detector, smoke_call,
                   SCIPY_AVAILABLE, shape_call, pid, dispatch_call, serial,
                   movement_lock_state, mouse_call, listener, capture, capture_call, gst,
                   gst_call, net, net_call, ndi, ndi_call, mss, mss_call, strafe, strafe_call,
                   monitor, monitor_call, hsv, crop, pull, rdr, req, logs>>

ListenerPass ==
    /\ \E t \in ListenerIds, read_raises \in BOOLEAN, v \in {0, 1, 3, 16} :
        /\ lst.pos[t] = "loop"
        /\ lst' = [listener_pass(lst, t, read_raises, v) EXCEPT !.exited = 0]
    /\ UNCHANGED <<now, rcs_state, rcs_call, obs, tracker, frame_call, detector, smoke_call,
                   SCIPY_AVAILABLE, shape_call, pid, dispatch_call, serial,
                   movement_lock_state, mouse_call, listener, capture, capture_call, gst,
                   gst_call, net, net_call, ndi, ndi_call, mss, mss_call, strafe, strafe_call,
                   monitor, monitor_call, hsv, crop, pull, rdr, req, logs>>

ListenerFinish ==
    /\ \E t \in ListenerIds :
        /\ lst.pos[t] = "exiting"
        /\ lst' = listener_finish(lst, t)
    /\ UNCHANGED <<now, rcs_state, rcs_call, obs, tracker, frame_call, detector, smoke_call,
                   SCIPY_AVAILABLE, shape_call, pid, dispatch_call, serial,
                   movement_lock_state, mouse_call, listener, capture, capture_call, gst,
                   gst_call, net, net_call, ndi, ndi_call, mss, mss_call, strafe, strafe_call,
                   monitor, monitor_call, hsv, crop, pull, rdr, req, logs>>

InitLst ==
    /\ InitCore
    /\ RestScipy
    /\ RestShape
    /\ RestPid
    /\ RestDispatch
    /\ RestSerial
    /\ RestMovement
    /\ RestMouseCall
    /\ RestListener
    /\ RestCapture
    /\ RestCaptureCall
    /\ RestGst
    /\ RestGstCall
    /\ RestNet
    /\ RestNetCall
    /\ RestNdi
    /\ RestNdiCall
    /\ RestMss
    /\ RestMssCall
    /\ RestStrafe
    /\ RestStrafeCall
    /\ RestMonitor
    /\ RestMonitorCall
    /\ RestHsv
    /\ RestCrop
    /\ RestPull
    /\ RestLst
    /\ RestRdr
    /\ RestReq
    /\ RestLogs

NextLst ==
    \/ ConnectToMakcuListener
    \/ SwitchTo4m
    \/ CleanupListener
    \/ ListenerPass
    \/ ListenerFinish

SpecLst == InitLst /\ [][NextLst]_vars

\* ============================ CaptureCardGStreamer.py, reader thread and stop
JoinTimeoutMs == 1000     \* stop: self._reader_thread.join(timeout=1.0)

PullTimeouts == {0, 5, 2000}     \* capture_gst_pull_timeout_ms

\* _try_pull_sample_from makes a native call on the appsink: with
\* gst_app_sink_try_pull_sample always, with gst_app_sink_pull_sample only
\* for a wait above zero.
pull_calls_native(r, timeout_ms) ==
    /\ r.appsink # "None"
    /\ r.has_try \/ timeout_ms > 0

\* The native call can outlast the join of stop(): gst_app_sink_pull_sample
\* has no timeout, gst_app_sink_try_pull_sample waits _pull_timeout_ns.
pull_outlasts_join(r) ==
    /\ r.pos = "in_pull"
    /\ ~r.has_try \/ r.pull_timeout_ms >= JoinTimeoutMs

\* Thread.join(timeout=1.0) returns with the reader still alive.
join_times_out(r) == pull_outlasts_join(r)

\* The native code is working on a handle that stop() has unreferenced.
uses_released(r) == r.pos \in {"in_pull", "in_drain"} /\ r.arg = "handle" /\ r.unreffed

\* _reader_loop, line 655: while self.running and not self._reader_stop.is_set()
reader_test(r) ==
    IF r.running /\ ~r.stop_set THEN [r EXCEPT !.pos = "guard"]
    ELSE [r EXCEPT !.pos = "done"]

\* lines 656-657: if not self.pipeline or not self.appsink: break
reader_guard(r) ==
    IF r.pipeline = "None" \/ r.appsink = "None" THEN [r EXCEPT !.pos = "done"]
    ELSE [r EXCEPT !.pos = "pull"]

\* _pull_latest_sample, line 684, and _try_pull_sample: self.appsink is read
\* and handed to the native call.
reader_enter_pull(r) ==
    IF pull_calls_native(r, r.pull_timeout_ms)
    THEN [r EXCEPT !.pos = "in_pull", !.arg = r.appsink]
    ELSE [r EXCEPT !.pos = "test"]

\* The first pull returns: a sample, or nothing (idle sleep and continue).
reader_leave_pull(r, got) ==
    IF got THEN [r EXCEPT !.pos = "drain", !.arg = "None", !.held = TRUE]
    ELSE [r EXCEPT !.pos = "test", !.arg = "None"]

\* lines 689-694: newer = self._try_pull_sample(0)
reader_enter_drain(r) ==
    IF pull_calls_native(r, 0)
    THEN [r EXCEPT !.pos = "in_drain", !.arg = r.appsink]
    ELSE [r EXCEPT !.pos = "decode"]

reader_leave_drain(r, got) ==
    IF got THEN [r EXCEPT !.pos = "drain", !.arg = "None"]
    ELSE [r EXCEPT !.pos = "decode", !.arg = "None"]

\* lines 665-680: _sample_to_frame, the store under _frame_lock, and the
\* gst_sample_unref of the finally.
reader_decode(r, frame_ok) ==
    [r EXCEPT !.pos = "test", !.held = FALSE,
              !.latest_frame = IF frame_ok THEN TRUE ELSE @]

\* stop(), lines 821-828: the flags, and whether there is a thread to join.
stop_begin(r) ==
    IF ~r.running THEN r
    ELSE [r EXCEPT !.running = FALSE, !.stop_set = TRUE,
                   !.stop_pos = IF r.pos # "done" THEN "join" ELSE "null"]

\* stop(), lines 830-838
stop_null(r, outcome) ==
    LET n == set_pipeline_to_null(r.pipeline, r.state, outcome)
    IN [r EXCEPT !.state = n.state, !.stop_pos = "release",
                 !.skip = IF r.pipeline # "None" THEN skip_unref(n.ok) ELSE FALSE]

\* stop(), lines 840-843: _release_pipeline_handles and the frame.
stop_release(r) ==
    [r EXCEPT !.unreffed = (r.appsink # "None" /\ ~r.skip),
              !.appsink = "None", !.pipeline = "None",
              !.latest_frame = FALSE, !.stop_pos = "done"]

\* used_after_release is a history of uses_released.
noted(r) == [r EXCEPT !.used_after_release = @ \/ uses_released(r)]

ReaderTest ==
    /\ rdr.pos = "test"
    /\ rdr' = noted(reader_test(rdr))
    /\ UNCHANGED <<now, rcs_state, rcs_call, obs, tracker, frame_call, detector, smoke_call,
                   SCIPY_AVAILABLE, shape_call, pid, dispatch_call, serial,
                   movement_lock_state, mouse_call, listener, capture, capture_call, gst,
                   gst_call, net, net_call, ndi, ndi_call, mss, mss_call, strafe, strafe_call,
                   monitor, monitor_call, hsv, crop, pull, lst, req, logs>>

ReaderGuard ==
    /\ rdr.pos = "guard"
    /\ rdr' = noted(reader_guard(rdr))
    /\ UNCHANGED <<now, rcs_state, rcs_call, obs, tracker, frame_call, detector, smoke_call,
                   SCIPY_AVAILABLE, shape_call, pid, dispatch_call, serial,
                   movement_lock_state, mouse_call, listener, capture, capture_call, gst,
                   gst_call, net, net_call, ndi, ndi_call, mss, mss_call, strafe, strafe_call,
                   monitor, monitor_call, hsv, crop, pull, lst, req, logs>>

ReaderEnterPull ==
    /\ rdr.pos = "pull"
    /\ rdr' = noted(reader_enter_pull(rdr))
    /\ UNCHANGED <<now, rcs_state, rcs_call, obs, tracker, frame_call, detector, smoke_call,
                   SCIPY_AVAILABLE, shape_call, pid, dispatch_call, serial,
                   movement_lock_state, mouse_call, listener, capture, capture_call, gst,
                   gst_call, net, net_call, ndi, ndi_call, mss, mss_call, strafe, strafe_call,
                   monitor, monitor_call, hsv, crop, pull, lst, req, logs>>

ReaderLeavePull ==
    /\ rdr.pos = "in_pull"
    /\ \E got \in BOOLEAN : rdr' = noted(reader_leave_pull(rdr, got))
    /\ UNCHANGED <<now, rcs_state, rcs_call, obs, tracker, frame_call, detector, smoke_call,
                   SCIPY_AVAILABLE, shape_call, pid, dispatch_call, serial,
                   movement_lock_state, mouse_call, listener, capture, capture_call, gst,
                   gst_call, net, net_call, ndi, ndi_call, mss, mss_call, strafe, strafe_call,
                   monitor, monitor_call, hsv, crop, pull, lst, req, logs>>

ReaderEnterDrain ==
    /\ rdr.pos = "drain"
    /\ rdr' = noted(reader_enter_drain(rdr))
    /\ UNCHANGED <<now, rcs_state, rcs_call, obs, tracker, frame_call, detector, smoke_call,
                   SCIPY_AVAILABLE, shape_call, pid, dispatch_call, serial,
                   movement_lock_state, mouse_call, listener, capture, capture_call, gst,
                   gst_call, net, net_call, ndi, ndi_call, mss, mss_call, strafe, strafe_call,
                   monitor, monitor_call, hsv, crop, pull, lst, req, logs>>

ReaderLeaveDrain ==
    /\ rdr.pos = "in_drain"
    /\ \E got \in BOOLEAN : rdr' = noted(reader_leave_drain(rdr, got))
    /\ UNCHANGED <<now, rcs_state, rcs_call, obs, tracker, frame_call, detector, smoke_call,
                   SCIPY_AVAILABLE, shape_call, pid, dispatch_call, serial,
                   movement_lock_state, mouse_call, listener, capture, capture_call, gst,
                   gst_call, net, net_call, ndi, ndi_call, mss, mss_call, strafe, strafe_call,
                   monitor, monitor_call, hsv, crop, pull, lst, req, logs>>

ReaderDecode ==
    /\ rdr.pos = "decode"
    /\ \E frame_ok \in BOOLEAN : rdr' = noted(reader_decode(rdr, frame_ok))
    /\ UNCHANGED <<now, rcs_state, rcs_call, obs, tracker, frame_call, detector, smoke_call,
                   SCIPY_AVAILABLE, shape_call, pid, dispatch_call, serial,
                   movement_lock_state, mouse_call, listener, capture, capture_call, gst,
                   gst_call, net, net_call, ndi, ndi_call, mss, mss_call, strafe, strafe_call,
                   monitor, monitor_call, hsv, crop, pull, lst, req, logs>>

StopBegin ==
    /\ rdr.stop_pos = "idle"
    /\ rdr.running
    /\ rdr' = noted(stop_begin(rdr))
    /\ UNCHANGED <<now, rcs_state, rcs_call, obs, tracker, frame_call, detector, smoke_call,
                   SCIPY_AVAILABLE, shape_call, pid, dispatch_call, serial,
                   movement_lock_state, mouse_call, listener, capture, capture_call, gst,
                   gst_call, net, net_call, ndi, ndi_call, mss, mss_call, strafe, strafe_call,
                   monitor, monitor_call, hsv, crop, pull, lst, req, logs>>

\* join(timeout=1.0) returns: the reader has ended, or the second is over.
StopJoin ==
    /\ rdr.stop_pos = "join"
    /\ rdr.pos = "done" \/ join_times_out(rdr)
    /\ rdr' = [rdr EXCEPT !.stop_pos = "null"]
    /\ UNCHANGED <<now, rcs_state, rcs_call, obs, tracker, frame_call, detector, smoke_call,
                   SCIPY_AVAILABLE, shape_call, pid, dispatch_call, serial,
                   movement_lock_state, mouse_call, listener, capture, capture_call, gst,
                   gst_call, net, net_call, ndi, ndi_call, mss, mss_call, strafe, strafe_call,
                   monitor, monitor_call, hsv, crop, pull, lst, req, logs>>

StopNull ==
    /\ rdr.stop_pos = "null"
    /\ \E outcome \in NullOutcomes : rdr' = noted(stop_null(rdr, outcome))
    /\ UNCHANGED <<now, rcs_state, rcs_call, obs, tracker, frame_call, detector, smoke_call,
                   SCIPY_AVAILABLE, shape_call, pid, dispatch_call, serial,
                   movement_lock_state, mouse_call, listener, capture, capture_call, gst,
                   gst_call, net, net_call, ndi, ndi_call, mss, mss_call, strafe, strafe_call,
                   monitor, monitor_call, hsv, crop, pull, lst, req, logs>>

StopRelease ==
    /\ rdr.stop_pos = "release"
    /\ rdr' = noted(stop_release(rdr))
    /\ UNCHANGED <<now, rcs_state, rcs_call, obs, tracker, frame_call, detector, smoke_call,
                   SCIPY_AVAILABLE, shape_call, pid, dispatch_call, serial,
                   movement_lock_state, mouse_call, listener, capture, capture_call, gst,
                   gst_call, net, net_call, ndi, ndi_call, mss, mss_call, strafe, strafe_call,
                   monitor, monitor_call, hsv, crop, pull, lst, req, logs>>

InitRdr ==
    /\ InitCore
    /\ \E has_try \in BOOLEAN, t \in PullTimeouts :
        rdr = [running |-> TRUE, stop_set |-> FALSE, pipeline |-> "handle",
               appsink |-> "handle", state |-> "PLAYING", unreffed |-> FALSE,
               has_try |-> has_try, pull_timeout_ms |-> t, pos |-> "test",
               arg |-> "None", held |-> FALSE, latest_frame |-> FALSE,
               stop_pos |-> "idle", skip |-> FALSE, used_after_release |-> FALSE]
    /\ RestScipy
    /\ RestShape
    /\ RestPid
    /\ RestDispatch
    /\ RestSerial
    /\ RestMovement
    /\ RestMouseCall
    /\ RestListener
    /\ RestCapture
    /\ RestCaptureCall
    /\ RestGst
    /\ RestGstCall
    /\ RestNet
    /\ RestNetCall
    /\ RestNdi
    /\ RestNdiCall
    /\ RestMss
    /\ RestMssCall
    /\ RestStrafe
    /\ RestStrafeCall
    /\ RestMonitor
    /\ RestMonitorCall
    /\ RestHsv
    /\ RestCrop
    /\ RestPull
    /\ RestLst
    /\ RestReq
    /\ RestLogs

NextRdr ==
    \/ ReaderTest
    \/ ReaderGuard
    \/ ReaderEnterPull
    \/ ReaderLeavePull
    \/ ReaderEnterDrain
    \/ ReaderLeaveDrain
    \/ ReaderDecode
    \/ StopBegin
    \/ StopJoin
    \/ StopNull
    \/ StopRelease

SpecRdr == InitRdr /\ [][NextRdr]_vars

\* ================================ mouse.py, the axes a profile asked to lock
\* update_movement_lock keeps of its arguments only lock_x or lock_y; req
\* keeps, for each profile, the arguments of the last call that took effect.
note_request(r, s, lock_x, lock_y, is_main, current_time, acquired) ==
    IF ~s.is_connected \/ ~acquired THEN r
    ELSE IF is_main
    THEN [r EXCEPT !.main = [made |-> TRUE, lock_x |-> lock_x, lock_y |-> lock_y,
                             time |-> current_time]]
    ELSE [r EXCEPT !.sec = [made |-> TRUE, lock_x |-> lock_x, lock_y |-> lock_y,
                            time |-> current_time]]

UpdateMovementLockRequest ==
    /\ MouseIdle
    /\ \E lock_x \in BOOLEAN, lock_y \in BOOLEAN, is_main \in BOOLEAN, acquired \in BOOLEAN :
        /\ movement_lock_state' = update_movement_lock(serial, movement_lock_state,
                                                       lock_x, lock_y, is_main, now, acquired)
        /\ req' = note_request(req, serial, lock_x, lock_y, is_main, now, acquired)
    /\ UNCHANGED <<now, rcs_state, rcs_call, obs, tracker, frame_call, detector, smoke_call,
                   SCIPY_AVAILABLE, shape_call, pid, dispatch_call, serial, mouse_call,
                   listener, capture, capture_call, gst, gst_call, net, net_call, ndi,
                   ndi_call, mss, mss_call, strafe, strafe_call, monitor, monitor_call, hsv,
                   crop, pull, lst, rdr, logs>>

InitAxis ==
    /\ InitCore
    /\ RestScipy
    /\ RestShape
    /\ RestPid
    /\ RestDispatch
    /\ RestSerial
    /\ RestMovement
    /\ RestMouseCall
    /\ RestListener
    /\ RestCapture
    /\ RestCaptureCall
    /\ RestGst
    /\ RestGstCall
    /\ RestNet
    /\ RestNetCall
    /\ RestNdi
    /\ RestNdiCall
    /\ RestMss
    /\ RestMssCall
    /\ RestStrafe
    /\ RestStrafeCall
    /\ RestMonitor
    /\ RestMonitorCall
    /\ RestHsv
    /\ RestCrop
    /\ RestPull
    /\ RestLst
    /\ RestRdr
    /\ RestReq
    /\ RestLogs

NextAxis ==
    \/ UpdateMovementLockRequest
    \/ TickMovementLockManager
    \/ ClockAdvances
    \/ ConnectToMakcu
    \/ MouseReturn

SpecAxis == InitAxis /\ [][NextAxis]_vars

\* ==================================================== debug_logger.py
\* _log_buffer = deque(maxlen=5000); the model's ring holds 3 entries.
log_buffer_maxlen == 3

MaxLogEntries == 6        \* entries appended in one run
MaxCount == 4             \* largest count asked of get_recent_logs

\* deque.append on a full ring drops the oldest entry.
_append_entry(buffer, entry) ==
    IF Len(buffer) >= log_buffer_maxlen THEN Append(Tail(buffer), entry)
    ELSE Append(buffer, entry)

\* list[-count:]: a negative start counts from the end, and -0 is 0, the
\* start of the list.
tail_slice(list, count) ==
    LET start == IF 0 - count < 0 THEN Max(Len(list) - count, 0)
                 ELSE Min(0 - count, Len(list))
    IN SubSeq(list, start + 1, Len(list))

\* get_recent_logs(count)
get_recent_logs(buffer, count) == tail_slice(buffer, count)

\* clear_logs()
clear_logs(buffer) == <<>>

\* get_log_count()
get_log_count(buffer) == Len(buffer)

AppendEntry ==
    /\ logs.appended < MaxLogEntries
    /\ logs' = [buffer |-> _append_entry(logs.buffer, logs.appended + 1),
                appended |-> logs.appended + 1, call |-> [made |-> FALSE]]
    /\ UNCHANGED <<now, rcs_state, rcs_call, obs, tracker, frame_call, detector, smoke_call,
                   SCIPY_AVAILABLE, shape_call, pid, dispatch_call, serial,
                   movement_lock_state, mouse_call, listener, capture, capture_call, gst,
                   gst_call, net, net_call, ndi, ndi_call, mss, mss_call, strafe, strafe_call,
                   monitor, monitor_call, hsv, crop, pull, lst, rdr, req>>

GetRecentLogs ==
    /\ \E count \in 0..MaxCount :
        logs' = [logs EXCEPT !.call = [made |-> TRUE, count |-> count,
                                       before |-> logs.buffer,
                                       result |-> get_recent_logs(logs.buffer, count)]]
    /\ UNCHANGED <<now, rcs_state, rcs_call, obs, tracker, frame_call, detector, smoke_call,
                   SCIPY_AVAILABLE, shape_call, pid, dispatch_call, serial,
                   movement_lock_state, mouse_call, listener, capture, capture_call, gst,
                   gst_call, net, net_call, ndi, ndi_call, mss, mss_call, strafe, strafe_call,
                   monitor, monitor_call, hsv, crop, pull, lst, rdr, req>>

ClearLogs ==
    /\ logs' = [logs EXCEPT !.buffer = clear_logs(logs.buffer),
                            !.call = [made |-> FALSE]]
    /\ UNCHANGED <<now, rcs_state, rcs_call, obs, tracker, frame_call, detector, smoke_call,
                   SCIPY_AVAILABLE, shape_call, pid, dispatch_call, serial,
                   movement_lock_state, mouse_call, listener, capture, capture_call, gst,
                   gst_call, net, net_call, ndi, ndi_call, mss, mss_call, strafe, strafe_call,
                   monitor, monitor_call, hsv, crop, pull, lst, rdr, req>>

InitLogs ==
    /\ InitCore
    /\ RestScipy
    /\ RestShape
    /\ RestPid
    /\ RestDispatch
    /\ RestSerial
    /\ RestMovement
    /\ RestMouseCall
    /\ RestListener
    /\ RestCapture
    /\ RestCaptureCall
    /\ RestGst
    /\ RestGstCall
    /\ RestNet
    /\ RestNetCall
    /\ RestNdi
    /\ RestNdiCall
    /\ RestMss
    /\ RestMssCall
    /\ RestStrafe
    /\ RestStrafeCall
    /\ RestMonitor
    /\ RestMonitorCall
    /\ RestHsv
    /\ RestCrop
    /\ RestPull
    /\ RestLst
    /\ RestRdr
    /\ RestReq
    /\ RestLogs

NextLogs == AppendEntry \/ GetRecentLogs \/ ClearLogs

SpecLogs == InitLogs /\ [][NextLogs]_vars

\* ================================================================ claims

\* ------------------------------------------------------------------ C1
\* The frame of the priority scenario: the selected target lies inside the
\* Main and the Secondary FOV, both profiles are enabled with a button bound,
\* and the Secondary button is pressed.
BothProfilesArmed ==
    /\ frame_call.made /\ frame_call.in_main_fov /\ frame_call.in_sec_fov
    /\ frame_call.in.main.g.enabled /\ frame_call.in.main.g.selected_btn # None
    /\ gate_open(frame_call.in.sec.g)

OnlyCommandIs(source) ==
    Len(frame_call.cmds) = 1 /\ frame_call.cmds[1].source = source

C2_RcsOwnsY ==
    frame_call.made /\ frame_call.rcs_active =>
        \A i \in 1..Len(frame_call.cmds) : frame_call.cmds[i].ddy = 0

\* RCS active, "head" aiming at a target 4 px below the centre: without RCS the
\* command would carry a Y movement.
C2_Witness ==
    /\ frame_call.made /\ frame_call.rcs_active
    /\ frame_call.in.targets = <<T5>>
    /\ frame_call.sec_tried /\ ~frame_call.main_tried
    /\ frame_call.in.sec.p.aim_type = "head"
    /\ OnlyCommandIs("Sec Aimbot")
    /\ frame_call.cmds[1].ddy = 0 /\ frame_call.cmds[1].ddx # 0

\* ------------------------------------------------------------------ C3
\* C3: every call of process_normal_mode invokes process_triggerbot exactly
\* once and returns without raising, for every targets list (empty, or holding
\* tuples of any length), every outcome of the RCS step and every failure of
\* an aim attempt or of the triggerbot.  The code breaks this: the selection
\* and unpacking of the best target (lines 134-141) are outside any try block
\* and raise for a tuple shorter than 3 or longer than 5.
C3_TriggerbotEveryFrame ==
    frame_call.made => ~frame_call.raised /\ frame_call.triggerbot_calls = 1

\* ------------------------------------------------------------------ C4
\* C4: whenever is_rcs_active() is True, an RCS pull-loop thread is alive at
\* a point of the loop from which it goes on emitting downward moves. (start_rcs
\* sets the flag and starts the thread under one lock, so no state shows it
\* between the two.)  The code breaks this: the loop leaves on a failed
\* controller.move without clearing is_active, and start_rcs takes a thread
\* that has already left the loop for a running one.
C4_ActiveHasPullThread ==
    is_rcs_active(rcs_state) => thread_is_pulling(rcs_state)

\* ------------------------------------------------------------------ C5
\* The call's hold time: from the check_rcs_activation call that first observed
\* the press to this call.
CallHold == now - rcs_call.held_since

\* A rapid click applies to the call: it is the first to observe a press, and
\* the release observed before it is at most rapid_click_threshold ms old.
CallRapidClick ==
    /\ rcs_call.prev_btn # "pressed"
    /\ rcs_call.prev_released_at > 0
    /\ now - rcs_call.prev_released_at <= rcs_call.rapid_click_threshold

CallChecksPressed == rcs_call.made /\ rcs_call.enablercs /\ rcs_call.b1

\* C5 as stated: check_rcs_activation returns True on any call made while the
\* button has been observed continuously pressed for at least activation_delay
\* ms since the call that first observed the press, and False on a call where
\* the hold is shorter and no rapid click applies.
C5_HoldActivates_AsStated ==
    CallChecksPressed =>
        /\ (CallHold >= rcs_call.activation_delay => rcs_call.should_activate)
        /\ (CallHold < rcs_call.activation_delay /\ ~CallRapidClick
                => ~rcs_call.should_activate)

\* C5, amended: the same, for a press during which process_rcs has not run with
\* the feature flag off since the press was first observed (stop_rcs clears
\* button_press_time, so the hold is measured anew after it).
C5_HoldActivates ==
    CallChecksPressed /\ ~rcs_call.hold_flag_off =>
        /\ (CallHold >= rcs_call.activation_delay => rcs_call.should_activate)
        /\ (CallHold < rcs_call.activation_delay /\ ~CallRapidClick
                => ~rcs_call.should_activate)

\* A call that activates exactly at the boundary, the press having been first
\* observed by an earlier call.
C5_Witness ==
    /\ CallChecksPressed /\ ~rcs_call.hold_flag_off
    /\ rcs_call.prev_btn = "pressed"
    /\ rcs_call.activation_delay > 0
    /\ CallHold = rcs_call.activation_delay
    /\ rcs_call.should_activate

\* ------------------------------------------------------------------ C6
\* The call is the first to see a new press, within rapid_click_threshold ms
\* of the release observed before it.
CallRepressAfterRelease ==
    /\ CallChecksPressed
    /\ rcs_call.prev_btn = "released"
    /\ rcs_call.prev_released_at > 0
    /\ now - rcs_call.prev_released_at <= rcs_call.rapid_click_threshold

\* C6: when the button is observed released and then observed pressed again
\* within rapid_click_threshold ms of that release, the first process_rcs call
\* that sees the new press activates RCS and returns True whatever
\* activation_delay is, the feature flag being on.  The code breaks this: a
\* release becomes the last click time only while button_press_time is set,
\* and stop_rcs clears it (when line 167 is the read that sees the release,
\* and when the feature flag was off in between).
C6_RapidClickActivates ==
    CallRepressAfterRelease =>
        rcs_call.should_activate /\ rcs_call.ret /\ is_rcs_active(rcs_state)

\* ------------------------------------------------------------------ C7
\* The call found RCS active and the button released: every read of the button
\* it made returned "not pressed" (with the feature flag off it makes none).
CallSeesReleaseWhileActive ==
    /\ rcs_call.made /\ rcs_call.was_active
    /\ ~rcs_call.b1
    /\ rcs_call.read2 => ~rcs_call.b2

\* C7: if RCS is active and the primary button is released, the next
\* process_rcs call stops RCS and returns False, and is_rcs_active() stays
\* False until a later activation (a process_rcs call whose activation test
\* holds).
C7_ReleaseStops ==
    /\ [](CallSeesReleaseWhileActive => ~rcs_call.ret /\ ~is_rcs_active(rcs_state))
    /\ [][~is_rcs_active(rcs_state) /\ is_rcs_active(rcs_state')
            => rcs_call'.made /\ rcs_call'.should_activate]_vars

C7_Witness ==
    /\ CallSeesReleaseWhileActive
    /\ rcs_call.enablercs /\ rcs_call.read2
    /\ ~rcs_call.ret /\ ~is_rcs_active(rcs_state)
    /\ thread_is_alive(rcs_state)

\* ------------------------------------------------------------------ C8
\* Two positions are within 30px of each other.
Within30(p, q) ==
    (p[1] - q[1]) * (p[1] - q[1]) + (p[2] - q[2]) * (p[2] - q[2]) <= 30 * 30

LiveIds(canli_hedefler) == {canli_hedefler[i].id : i \in 1..Len(canli_hedefler)}

\* The update_frame call just made was given exactly one shape-valid cluster.
CallWithOneCluster == smoke_call.made /\ Len(smoke_call.shape_valid) = 1

\* C8 as stated: in a call that is given one shape-valid cluster, every
\* target live before the call whose position is within 30px of the
\* cluster's centre is live after the call under the same id, and the call
\* allocates no new id.
C8_IdRetained_AsStated ==
    CallWithOneCluster =>
        LET center == get_cluster_center(smoke_call.shape_valid[1])
            before == smoke_call.before.canli_hedefler
        IN \A i \in 1..Len(before) :
               Within30(center, before[i].pozisyon) =>
                   /\ before[i].id \in LiveIds(detector.canli_hedefler)
                   /\ detector.sonraki_hedef_id = smoke_call.before.sonraki_hedef_id

\* C8: in a call that is given one shape-valid cluster, the target live
\* before the call whose position is within 30px of the cluster's centre,
\* with no target created before it within 30px of that centre as well, is
\* live after the call under the same id, at the cluster's centre, seen in
\* this frame and holding the cluster, and the call allocates no new id.
C8_IdRetained ==
    CallWithOneCluster =>
        LET cluster == smoke_call.shape_valid[1]
            center == get_cluster_center(cluster)
            before == smoke_call.before.canli_hedefler
            after == detector.canli_hedefler
        IN \A i \in 1..Len(before) :
               (/\ Within30(center, before[i].pozisyon)
                /\ \A k \in 1..(i - 1) : ~Within30(center, before[k].pozisyon))
               => /\ \E j \in 1..Len(after) :
                         after[j] = [id |-> before[i].id, pozisyon |-> center,
                                     son_gorulme_ani |-> detector.frame_counter,
                                     cluster |-> cluster]
                  /\ detector.sonraki_hedef_id = smoke_call.before.sonraki_hedef_id

\* A target created in the first frame has been followed, one cluster a
\* frame, past the frame in which an unseen target is evicted; in the call
\* just made the cluster lay exactly 30px from the target's position.
C8_Witness ==
    /\ CallWithOneCluster
    /\ detector.frame_counter > hedef_kayip_suresi + 1
    /\ \E i \in 1..Len(smoke_call.before.canli_hedefler) :
           LET T == smoke_call.before.canli_hedefler[i]
               center == get_cluster_center(smoke_call.shape_valid[1])
           IN /\ i = 1
              /\ T.id = 1
              /\ T.son_gorulme_ani = detector.frame_counter - 1
              /\ calculate_distance_sq(center, T.pozisyon) = 30 * 30
              /\ T.id \in LiveIds(detector.canli_hedefler)

\* ------------------------------------------------------------------ C9
\* The targets live before the call just made that are no longer live.
Evicted ==
    {i \in 1..Len(smoke_call.before.canli_hedefler) :
         smoke_call.before.canli_hedefler[i].id \notin LiveIds(detector.canli_hedefler)}

\* The dead icons recorded in the frame of the call just made.
IconsOfThisFrame ==
    {i \in 1..Len(detector.olu_ikonlar) :
         detector.olu_ikonlar[i].olum_ani = detector.frame_counter}

\* C9: after every update_frame call every live target was last matched at
\* most 6 frames ago; a target evicted by the call was last matched exactly
\* 7 frames ago (the call is the first in which it is unseen for more than
\* 6), and the icons recorded in this frame are one per evicted target, each
\* with the target's last position and this frame's index.
C9_EvictionAfterSixFrames ==
    smoke_call.made =>
        LET f == detector.frame_counter
            before == smoke_call.before.canli_hedefler
            after == detector.canli_hedefler
        IN /\ \A j \in 1..Len(after) : f - after[j].son_gorulme_ani <= 6
           /\ \A i \in Evicted : f - before[i].son_gorulme_ani = 7
           /\ Cardinality(IconsOfThisFrame) = Cardinality(Evicted)
           /\ \A i \in Evicted :
                  Cardinality({k \in IconsOfThisFrame :
                                   detector.olu_ikonlar[k].pozisyon = before[i].pozisyon})
                  = Cardinality({e \in Evicted : before[e].pozisyon = before[i].pozisyon})
           /\ Len(detector.olu_ikonlar)
              = Len(smoke_call.before.olu_ikonlar) + Cardinality(Evicted)

\* The call just made evicted one target and kept another.
C9_Witness ==
    /\ smoke_call.made
    /\ Evicted # {}
    /\ detector.canli_hedefler # <<>>
    /\ \E j \in 1..Len(detector.canli_hedefler) :
           detector.canli_hedefler[j].id \in LiveIds(smoke_call.before.canli_hedefler)

\* ----------------------------------------------------------------- C10
\* The centre of a cluster is within 30px of a dead icon remembered when the
\* call just made decided on its unmatched clusters: an icon kept from the
\* frames before or recorded in this frame.
NearRememberedIcon(cluster) ==
    \E i \in 1..Len(smoke_call.ikonlar) :
        Within30(get_cluster_center(cluster), smoke_call.ikonlar[i].pozisyon)

FarFromRememberedIcons(cluster) == ~NearRememberedIcon(cluster)

\* The targets the call just made created, in the order of their creation.
CreatedTargets ==
    LET created(hedef_info) == hedef_info.id \notin LiveIds(smoke_call.before.canli_hedefler)
                               /\ hedef_info.son_gorulme_ani = detector.frame_counter
                               /\ hedef_info.id >= smoke_call.before.sonraki_hedef_id
    IN SelectSeq(detector.canli_hedefler, created)

\* C10: the targets a call creates are, in order, its unmatched clusters
\* that are not within 30px of a remembered dead icon, one target per such
\* cluster and none for a cluster within 30px of an icon; each new target
\* has an id greater than the ids of the targets live before the call, not
\* below the id counter as the call found it, and greater than the ids of
\* the targets created before it.
C10_DeadIconSuppresses ==
    smoke_call.made =>
        LET accepted == SelectSeq(smoke_call.unmatched, FarFromRememberedIcons)
            created == CreatedTargets
        IN /\ Len(created) = Len(accepted)
           /\ \A j \in 1..Len(created) :
                  /\ created[j].cluster = accepted[j]
                  /\ created[j].pozisyon = get_cluster_center(accepted[j])
                  /\ ~NearRememberedIcon(created[j].cluster)
                  /\ created[j].id >= smoke_call.before.sonraki_hedef_id
                  /\ \A i \in LiveIds(smoke_call.before.canli_hedefler) : created[j].id > i
                  /\ \A k \in 1..(j - 1) : created[j].id > created[k].id
           /\ detector.sonraki_hedef_id > smoke_call.before.sonraki_hedef_id + Len(created) - 1
           /\ \A j \in 1..Len(detector.canli_hedefler) :
                  detector.canli_hedefler[j].id < detector.sonraki_hedef_id

\* The call just made left one unmatched cluster without a target, since it
\* lay within 30px of a dead icon, and made a target of another.
C10_Witness ==
    /\ smoke_call.made
    /\ \E i \in 1..Len(smoke_call.unmatched) : NearRememberedIcon(smoke_call.unmatched[i])
    /\ CreatedTargets # <<>>

\* ----------------------------------------------------------------- C11
\* The unmatched clusters of the call just made for which it created no
\* target.
SuppressedClusters ==
    {i \in 1..Len(smoke_call.unmatched) :
         \A j \in 1..Len(detector.canli_hedefler) :
             \/ detector.canli_hedefler[j].son_gorulme_ani # detector.frame_counter
             \/ detector.canli_hedefler[j].id < smoke_call.before.sonraki_hedef_id
             \/ detector.canli_hedefler[j].pozisyon
                # get_cluster_center(smoke_call.unmatched[i])}

\* A dead icon of age at most 120 in the frame of the call just made lies
\* within 30px of the cluster's centre.
NearYoungIcon(cluster) ==
    \E i \in 1..Len(smoke_call.ikonlar) :
        /\ detector.frame_counter - smoke_call.ikonlar[i].olum_ani <= 120
        /\ Within30(get_cluster_center(cluster), smoke_call.ikonlar[i].pozisyon)

\* C11: a dead icon suppresses the creation of a target only while its age,
\* the current frame index minus the frame index of its recording, is at
\* most 120: every unmatched cluster for which a call creates no target lies
\* within 30px of an icon of age at most 120, so that a cluster arriving when
\* the icon is older than 120 frames becomes a new target.
C11_IconSuppressesUpTo120 ==
    smoke_call.made =>
        \A i \in SuppressedClusters : NearYoungIcon(smoke_call.unmatched[i])

\* ----------------------------------------------------------------- C12
\* The number of entries of a sequence that equal x.
CountIn(seq, x) == Cardinality({i \in 1..Len(seq) : seq[i] = x})

LiveClusters == [i \in 1..Len(detector.canli_hedefler) |-> detector.canli_hedefler[i].cluster]

\* C12: the list update_frame returns holds the cluster of each live target
\* exactly once: it has one entry per live target, and every cluster occurs
\* in it as often as there are live targets holding it, for targets matched
\* in the call and targets created in it alike.
C12_EachLiveClusterOnce ==
    smoke_call.made =>
        /\ Len(smoke_call.valid_targets) = Len(detector.canli_hedefler)
        /\ \A i \in 1..Len(smoke_call.valid_targets) :
               CountIn(smoke_call.valid_targets, smoke_call.valid_targets[i])
               = CountIn(LiveClusters, smoke_call.valid_targets[i])

\* ----------------------------------------------------------------- C13
\* The call just made ran the enabled filter on a cluster of n pixels.
FilteredClusterOf(n) ==
    shape_call.made /\ shape_call.enabled /\ Len(shape_call.cluster) = n

BoxOfCallHasArea50 ==
    bbox_width(shape_call.cluster) * bbox_height(shape_call.cluster) >= 50

\* The aspect rule does not reject the cluster: its width is at most 1.3
\* times its height.
AspectOfCallAcceptable ==
    10 * bbox_width(shape_call.cluster) <= 13 * bbox_height(shape_call.cluster)

\* The cluster is taller than 1.5 times its width, and no taller than 80.
CallClusterIsTall ==
    /\ 2 * bbox_height(shape_call.cluster) > 3 * bbox_width(shape_call.cluster)
    /\ bbox_height(shape_call.cluster) <= 80

\* C13 as stated: the enabled filter accepts every cluster of 15 pixels whose
\* bounding box has area at least 50 and whose aspect ratio the aspect rule
\* accepts, and rejects every cluster of 14 pixels.
C13_MinPixelBoundary_AsStated ==
    /\ (FilteredClusterOf(15) /\ BoxOfCallHasArea50 /\ AspectOfCallAcceptable)
           => shape_call.plausible
    /\ FilteredClusterOf(14) => ~shape_call.plausible

\* C13: the enabled filter accepts every cluster of 15 pixels whose bounding
\* box has area at least 50 and is taller than 1.5 times its width and no
\* taller than 80; it rejects every cluster of 14 pixels; and in a build
\* without scipy it rejects every cluster of 15 pixels with a box of area at
\* least 50 that is not taller than 1.5 times its width, its convexity ratio
\* being at most 15/50.
C13_MinPixelBoundary ==
    /\ (FilteredClusterOf(15) /\ BoxOfCallHasArea50 /\ CallClusterIsTall)
           => shape_call.plausible
    /\ FilteredClusterOf(14) => ~shape_call.plausible
    /\ (/\ FilteredClusterOf(15) /\ BoxOfCallHasArea50 /\ ~SCIPY_AVAILABLE
        /\ 2 * bbox_height(shape_call.cluster) <= 3 * bbox_width(shape_call.cluster))
           => ~shape_call.plausible

\* The filter has accepted a tall cluster of exactly 15 pixels.
C13_Witness ==
    /\ FilteredClusterOf(15) /\ BoxOfCallHasArea50 /\ CallClusterIsTall
    /\ shape_call.plausible

\* ----------------------------------------------------------------- C14
\* C14: no PID dispatch of a profile uses controller state accumulated
\* before a switch of the profile's mode away from PID: when dispatch runs
\* the PID handler, the state it finds is clean or was accumulated since the
\* mode was last switched to PID.
C14_NoStalePidState ==
    (dispatch_call.made /\ dispatch_call.mode_name = "PID")
        => ~dispatch_call.before.carried

\* ----------------------------------------------------------------- C15
MaskTickWhileConnected ==
    /\ mouse_call.made
    /\ mouse_call.op = "mask_manager_tick"
    /\ mouse_call.before.is_connected

\* C15: over any sequence of ticks, connects and disconnects, right after a
\* mask_manager_tick on a connected device: with the aimbot running and a
\* valid selected button exactly that button is locked on the device; the
\* button the module had applied before a selection change is unlocked;
\* with the aimbot not running no button is locked on the device.
C15_ExactlySelectedButtonLocked ==
    MaskTickWhileConnected =>
        /\ (mouse_call.aimbot_running /\ mouse_call.selected_idx \in 0..4)
               => serial.device_buttons = {mouse_call.selected_idx}
        /\ (/\ mouse_call.aimbot_running
            /\ mouse_call.selected_idx \in 0..4
            /\ mouse_call.before.mask_applied_idx \notin {None, mouse_call.selected_idx})
               => mouse_call.before.mask_applied_idx \notin serial.device_buttons
        /\ ~mouse_call.aimbot_running => serial.device_buttons = {}

\* ----------------------------------------------------------------- C16
\* A tick that runs on a connected device, obtains the state lock, and
\* finds the Main flag set more than 0.1 s after Main's last update.
TickAfterMainTimeout ==
    /\ mouse_call.made
    /\ mouse_call.op = "tick_movement_lock_manager"
    /\ mouse_call.before.is_connected
    /\ mouse_call.acquired
    /\ mouse_call.before_m.main_aimbot_locked
    /\ mouse_call.current_time - mouse_call.before_m.last_main_move_time > MOVEMENT_LOCK_TIMEOUT

\* What Sec holds after the tick, by the configuration the tick read.
SecHoldsX == mouse_call.cfg.sec_x /\ movement_lock_state.sec_aimbot_locked

SecHoldsY == mouse_call.cfg.sec_y /\ movement_lock_state.sec_aimbot_locked

\* C16: the first tick that runs more than 0.1 s after Main's last update,
\* with Main's flag still set, clears the flag, and after that tick the
\* device holds no axis lock that Sec does not hold.
C16_LockExpires ==
    TickAfterMainTimeout =>
        /\ ~movement_lock_state.main_aimbot_locked
        /\ ~SecHoldsX => ~serial.device_mx
        /\ ~SecHoldsY => ~serial.device_my

\* ----------------------------------------------------------------- C17
\* C17: after the listener has processed a byte v in 0..31, button_states
\* holds bit i of v for every button i in 0..4.
C17_MapEqualsMask ==
    (mouse_call.made /\ mouse_call.op = "listen_makcu" /\ mouse_call.v \in 0..31)
        => \A i \in 0..4 : listener.button_states[i] = bit(mouse_call.v, i)

\* ----------------------------------------------------------------- C18
\* The backends that hold an open connection.
OpenBackends ==
    {b \in CaptureModes :
        \/ b = "NDI" /\ capture.ndi
        \/ b = "UDP" /\ capture.udp
        \/ b = "CaptureCard" /\ capture.capture_card_camera = "open"
        \/ b = "CaptureCardGStreamer" /\ capture.capture_card_gstreamer_camera = "open"
        \/ b = "MSS" /\ capture.mss_capture = "connected"}

\* C18: after any sequence of set_mode, connect_* and disconnect calls no
\* backend other than the active mode's holds an open connection.
C18_OnlyActiveBackendOpen == OpenBackends \subseteq {capture.mode}

\* ----------------------------------------------------------------- C19
\* C19: in every mode, after disconnect() has returned is_connected() is
\* False and a second disconnect() changes nothing.
C19_DisconnectIdempotent ==
    (capture_call.made /\ capture_call.op = "disconnect")
        => /\ ~is_connected(capture)
           /\ disconnect(capture) = capture

\* ----------------------------------------------------------------- C20
\* C20: whenever connect_capture_card returns (True, None), is_connected()
\* is True right afterwards.
C20_ConnectedAfterSuccess ==
    (capture_call.made /\ capture_call.op = "connect_capture_card" /\ capture_call.ok)
        => is_connected(capture)

C21_WitnessDetached ==
    /\ gst_call.made
    /\ gst_call.op = "stop"
    /\ gst_call.before.pipeline = "handle"
    /\ ~gst_call.null_ok
    /\ gst.pipeline = "None"

\* ----------------------------------------------------------------- C22
\* C22: connect runs the native init in the host process only after the
\* child's probe reported success; a probe that timed out has its child
\* terminated; and every call that returns False leaves the session
\* disconnected with a non-empty last_connect_error.
C22_ProbeBeforeHostInit ==
    net_call.made =>
        /\ net_call.host_init => net_call.probed = "ok"
        /\ net_call.probed = "timeout" => net_call.terminated
        /\ ~net_call.ret => (~net.is_connected /\ net.last_connect_error # "")

\* ----------------------------------------------------------------- C23
\* C23: connect_to_source with an explicit name attempts the connection to
\* that name; without a name it attempts the previously selected source;
\* and it fails with the no-sources error only when there is neither an
\* explicit name nor a selected source.
C23_ResolvesSourceName ==
    ndi_call.made =>
        /\ ndi_call.source_name # "None" => ndi_call.attempted = ndi_call.source_name
        /\ (ndi_call.source_name = "None" /\ ndi_call.before.selected_source # "None")
               => ndi_call.attempted = ndi_call.before.selected_source
        /\ ndi_call.error = "No NDI sources available"
               => (ndi_call.source_name = "None" /\ ndi_call.before.selected_source = "None")

\* ----------------------------------------------------------------- C24
\* C24: connect() succeeds only if the requested monitor index exists, and
\* whenever it returns (False, message) the instance is not connected
\* afterwards: is_connected() is False and get_frame returns None.
C24_FailedConnectDisconnects ==
    (mss_call.made /\ mss_call.op = "connect") =>
        /\ mss_call.ok => mss.monitor_index \in 0..(mss_call.len - 1)
        /\ ~mss_call.ok => (~mss.connected /\ ~get_frame_returns_frame(mss, FALSE))

\* ----------------------------------------------------------------- C25
\* C25: in every state of an MSSCapture instance, whatever fov_x and fov_y
\* it was constructed with and whatever set_fov calls were made, the
\* half-width and the half-height are at least 16 pixels.
C25_FovAtLeast16 == mss.exists => (mss.fov_x >= 160 /\ mss.fov_y >= 160)

\* ----------------------------------------------------------------- C26
\* C26: in manual-wait mode with a required neutral hold of R > 0 ms, the
\* gate passes only when every call since the one that started the current
\* timer observed neutral movement and at least R ms have elapsed since that
\* call; a call that observes non-neutral movement clears the timer and
\* blocks.
C26_PassOnlyAfterNeutralHold ==
    (strafe_call.made /\ strafe_call.op = "gate"
        /\ strafe_call.mode = STRAFE_MODE_MANUAL_WAIT /\ strafe_call.required_ms > 0) =>
        /\ strafe_call.ok =>
              /\ strafe_call.neutral
              /\ strafe.timer_start # None
              /\ strafe.all_neutral
              /\ strafe.time - strafe.timer_start >= 10 * strafe_call.required_ms
        /\ ~strafe_call.neutral =>
              /\ ~strafe_call.ok
              /\ strafe.neutral_since = None

\* The gate passes after a hold of two milliseconds that an earlier call
\* started.
C26_Witness ==
    /\ strafe_call.made
    /\ strafe_call.op = "gate"
    /\ strafe_call.mode = STRAFE_MODE_MANUAL_WAIT
    /\ strafe_call.required_ms = 2
    /\ strafe_call.ok
    /\ strafe.timer_start # None
    /\ strafe.timer_start > 0
    /\ strafe.time >= strafe.timer_start + 20

\* ----------------------------------------------------------------- C27
\* C27: in auto mode, once shot_func has ended (returned or raised), every
\* opposing key run_with_auto_strafe pressed is released exactly once, after
\* shot_func, and the releases come in the reverse of the press order.
KeysOf(kind) ==
    SelectSeq(strafe_call.events, LAMBDA ev : ev.e = kind)

ShotPosition ==
    CHOOSE i \in 1..Len(strafe_call.events) : strafe_call.events[i].e = "shot_func"

PressesSince(i) ==
    Cardinality({k \in (Max(monitor.reset_at, 1) + 1)..Len(monitor.reads) :
                    i \in monitor.reads[k] /\ i \notin monitor.reads[k - 1]})

C28_CountsRisingEdges ==
    /\ monitor.is_enabled =>
          \A i \in Buttons : monitor.button_counts[i] = PressesSince(i)
    /\ (monitor_call.made /\ monitor_call.op = "update"
            /\ ~monitor_call.before.is_enabled) =>
          /\ monitor.button_counts = monitor_call.before.button_counts
          /\ monitor.last_button_states = monitor_call.before.last_button_states

\* Button 0 was down at enable() and is not counted by the first update,
\* was released and pressed again, and is counted once.
C28_Witness ==
    /\ monitor.is_enabled
    /\ Len(monitor.reads) = 4
    /\ 0 \in monitor.reads[1]
    /\ 0 \in monitor.reads[2]
    /\ 0 \notin monitor.reads[3]
    /\ 0 \in monitor.reads[4]
    /\ monitor.reset_at = 0
    /\ monitor.button_counts[0] = 1

\* update() was called while the monitor was disabled, with counts left
\* over from the time it was enabled.
C28_WitnessDisabled ==
    /\ monitor_call.made
    /\ monitor_call.op = "update"
    /\ ~monitor_call.before.is_enabled
    /\ monitor_call.before.button_counts[0] = 1

\* ----------------------------------------------------------------- C29
clamped(x, bottom, top) == IF x < bottom THEN bottom ELSE IF x > top THEN top ELSE x

PickedValue(ch) ==
    CASE ch = "h" -> hsv.last.h [] ch = "s" -> hsv.last.s [] ch = "v" -> hsv.last.v

PickedByRule ==
    hsv.last.op = "pick" =>
        \A ch \in Channels :
            /\ hsv.lo[ch] = clamped(PickedValue(ch) - (IF ch = "h" THEN 8 ELSE 45), 0,
                                    ChannelMax(ch))
            /\ hsv.hi[ch] = clamped(PickedValue(ch) + (IF ch = "h" THEN 8 ELSE 45), 0,
                                    ChannelMax(ch))

Picked_60_120_200 ==
    hsv.last = [op |-> "pick", h |-> 60, s |-> 120, v |-> 200]

\* C29 as stated: a pick sets each channel's Low/High to the pixel value
\* minus/plus its tolerance (8, 45, 45) clamped to the channel's range, and
\* picking (60,120,200) gives Hue [52,68], Saturation [75,165] and Value
\* [155,255].
C29_PickSetsRanges ==
    /\ PickedByRule
    /\ Picked_60_120_200 =>
          /\ hsv.lo = [ch \in Channels |-> CASE ch = "h" -> 52 [] ch = "s" -> 75 [] ch = "v" -> 155]
          /\ hsv.hi = [ch \in Channels |-> CASE ch = "h" -> 68 [] ch = "s" -> 165 [] ch = "v" -> 255]

\* C29 amended: the same, with Value [155,245] for the pick of (60,120,200).
C29_PickSetsRangesAmended ==
    /\ PickedByRule
    /\ Picked_60_120_200 =>
          /\ hsv.lo = [ch \in Channels |-> CASE ch = "h" -> 52 [] ch = "s" -> 75 [] ch = "v" -> 155]
          /\ hsv.hi = [ch \in Channels |-> CASE ch = "h" -> 68 [] ch = "s" -> 165 [] ch = "v" -> 245]

\* The pixel (60,120,200) has just been picked.
C29_Witness == Picked_60_120_200 /\ hsv.hi["v"] = 245

\* A pick whose high values are cut at the top of the range.
C29_WitnessClamped ==
    /\ hsv.last = [op |-> "pick", h |-> 179, s |-> 255, v |-> 230]
    /\ hsv.hi["h"] = 179

\* ----------------------------------------------------------------- C30
\* C30: if every channel starts with Low <= High, then after any sequence of
\* slider moves, picks, Apply and Reset every channel has Low <= High, and
\* so do the six values Apply has written to the configuration.
C30_LowAtMostHigh ==
    hsv.start_ok =>
        /\ \A ch \in Channels : hsv.lo[ch] <= hsv.hi[ch]
        /\ hsv.last.op = "apply" =>
              \A ch \in Channels : hsv.config_min[ch] <= hsv.config_max[ch]

\* The Low slider of the hue was moved above High, which followed, and the
\* values were applied.
C30_Witness ==
    /\ hsv.start_ok
    /\ hsv.last.op = "apply"
    /\ hsv.config_min["h"] = 120
    /\ hsv.config_max["h"] = 120

\* ----------------------------------------------------------------- C31
\* C31: the crop rectangle of the capture-card backends satisfies
\* 0 <= left <= right <= base width and 0 <= top <= bottom <= base height
\* for every base size, range and offset; for a 1920-wide frame with
\* capture_range_x = 2000 (and no offset) the horizontal extent is [0,1920].
C31_CropInsideFrame ==
    crop.op \in {"get_latest_frame", "_crop_frame"} =>
        /\ 0 <= crop.rect[1]
        /\ crop.rect[1] <= crop.rect[3]
        /\ crop.rect[3] <= crop.config.capture_width
        /\ 0 <= crop.rect[2]
        /\ crop.rect[2] <= crop.rect[4]
        /\ crop.rect[4] <= crop.config.capture_height
        /\ (crop.config.capture_width = 1920 /\ crop.config.capture_range_x = 2000
                /\ crop.config.capture_offset_x = 0) =>
              (crop.rect[1] = 0 /\ crop.rect[3] = 1920)

\* A 1920-wide frame cropped with capture_range_x = 2000.
C31_Witness ==
    /\ crop.op = "_crop_frame"
    /\ crop.config.capture_width = 1920
    /\ crop.config.capture_range_x = 2000
    /\ crop.config.capture_offset_x = 0
    /\ crop.rect[3] = 1920

\* An offset pushes the window past the right edge.
C31_WitnessPastEdge ==
    /\ crop.op = "get_latest_frame"
    /\ crop.config.capture_offset_x = 3000
    /\ crop.rect[1] = crop.config.capture_width
    /\ crop.rect[3] = crop.config.capture_width

\* ----------------------------------------------------------------- C39
\* C39: get_capture_card_region returns the rectangle that
\* CaptureCardCamera.get_latest_frame crops the frame to.
C39_RegionEqualsCrop ==
    crop.op = "get_capture_card_region" => crop.rect = get_latest_frame_rect(crop.config)

\* ----------------------------------------------------------------- C32
\* C32: each activation cycle is served by a pull thread of its own, started
\* with the controller and pull_speed of the start_rcs call that opened the
\* cycle; a thread started in an earlier cycle emits no move during a later
\* cycle.
C32_OwnThreadPerCycle ==
    /\ pull.is_active =>
          (pull.thread.cycle = pull.cycle /\ pull.thread.pull_speed = pull.cycle_speed)
    /\ (pull.move.made /\ pull.move.active) =>
          (pull.move.thread_cycle = pull.move.cycle
              /\ pull.move.pull_speed = pull.move.cycle_speed)

\* ----------------------------------------------------------------- C33
\* C33: a call of process_normal_mode enqueues at most one movement command,
\* whatever the flags, buttons and targets, and also when an aim attempt
\* fails with an error at some step of its block.
C33_AtMostOneCommand == frame_call.made => Len(frame_call.cmds) <= 1

\* ----------------------------------------------------------------- C34
\* C34: whenever the serial session is connected exactly one listener
\* thread is alive, over every sequence of connect_to_makcu, switch_to_4m
\* and Mouse.cleanup interleaved with the listener's own exit; and a
\* listener that exits leaves all button states False.
C34_ExactlyOneListener ==
    /\ lst.is_connected => Cardinality(AliveListeners(lst)) = 1
    /\ lst.exited # 0 => \A i \in 0..4 : ~lst.button_states[i]

\* C35: the reader thread never has a native call running on the appsink
\* handle once stop() has unreferenced it, whatever the interleaving of
\* stop() with the reader loop, also when the join of stop() times out.
C35_NoUseAfterRelease == ~uses_released(rdr)

\* The profile's last update_movement_lock asked for the axis and has not
\* expired at current_time.
asked_x(r, current_time) == r.made /\ r.lock_x /\ ~expired(current_time, r.time)

asked_y(r, current_time) == r.made /\ r.lock_y /\ ~expired(current_time, r.time)

\* C36: after a tick_movement_lock_manager that ran (connected, lock taken)
\* the device X axis is locked only if the last unexpired update_movement_lock
\* of some profile asked for lock_x, and the Y axis only if one asked for
\* lock_y.
C36_LockedOnlyIfAsked ==
    (/\ mouse_call.made
     /\ mouse_call.op = "tick_movement_lock_manager"
     /\ mouse_call.acquired
     /\ mouse_call.before.is_connected)
    => /\ serial.device_mx =>
            \/ asked_x(req.main, mouse_call.current_time)
            \/ asked_x(req.sec, mouse_call.current_time)
       /\ serial.device_my =>
            \/ asked_y(req.main, mouse_call.current_time)
            \/ asked_y(req.sec, mouse_call.current_time)

\* C37: a Mouse.cleanup() of a connected session leaves no button lock and
\* no X or Y movement lock set on the device.
C37_CleanupUnlocksDevice ==
    [][(Cleanup /\ serial.is_connected)
       => /\ serial'.device_buttons = {}
          /\ ~serial'.device_mx
          /\ ~serial'.device_my]_vars

\* C38: every shape-valid cluster (of at least one pixel) handed to
\* update_frame is in the list the call returns and is the cluster of a live
\* target, or its centre is within 30px of a remembered dead icon.
C38_NoClusterDropped ==
    smoke_call.made =>
        \A i \in 1..Len(smoke_call.shape_valid) :
            LET cluster == smoke_call.shape_valid[i]
            IN \/ cluster = <<>>
               \/ /\ \E j \in 1..Len(smoke_call.valid_targets) :
                         smoke_call.valid_targets[j] = cluster
                  /\ \E j \in 1..Len(detector.canli_hedefler) :
                         detector.canli_hedefler[j].cluster = cluster
               \/ NearRememberedIcon(cluster)

\* The last n entries of a list, in their order; all of it when it has fewer.
MostRecent(list, n) == [i \in 1..Min(n, Len(list)) |-> list[Len(list) - Min(n, Len(list)) + i]]

\* C40: get_recent_logs(count) returns at most count entries, the most
\* recent ones in insertion order, for every count >= 0, and leaves the ring
\* buffer as it was.
C40_MostRecentCount ==
    logs.call.made =>
        /\ Len(logs.call.result) <= logs.call.count
        /\ logs.call.result = MostRecent(logs.call.before, logs.call.count)
        /\ logs.buffer = logs.call.before


====
